---- MODULE Spec2Model ----
(***************************************************************************)
(* The text-layout caches of epaint (src/epaint/src/text/fonts.rs):        *)
(* FontPaintManager = one lock around FontManagerAndGallyCache, which      *)
(* owns a FontsManager (atlas, FontsImplCache, font_impl_manager_map) and  *)
(* a GalleyCache.  Every public operation runs with the lock held, so one  *)
(* action is one whole call.                                               *)
(*                                                                         *)
(* Numbers.  f32 values are kept as exact fixed-point integers on grids    *)
(* whose points are exactly representable in f32, so every comparison and  *)
(* rounding below is the one the f32 arithmetic of the code performs:      *)
(*   pixels_per_point   in units of 1/PppUnit   (1/2048)                   *)
(*   FontId.size        in units of 1/SizeUnit  (quarter points)           *)
(*   FontTweak.scale    in units of 1/TweakUnit (quarters)                 *)
(*   atlas fill ratio   in units of 1/FillUnit  (tenths)                   *)
(* Shared objects (Arc) carry an id that no other live object of the kind  *)
(* has: two handles are the same object iff their ids are equal.           *)
(***************************************************************************)
EXTENDS Integers, Sequences, FiniteSets, TLC

\* ------------------------------------------------------------------------
\* Bounds of the model

\* number of calls made on the FontPaintManager after its construction
MaxOps == 4

\* ------------------------------------------------------------------------
\* Encodings and program constants

PppUnit == 2^11
SizeUnit == 2^2
TweakUnit == 2^2
FillUnit == 2 * 5

\* u32 (GalleyCache::generation, CachedGalley::last_used): a 32-bit unsigned
\* integer is kept as its two 16-bit halves, value = hi * 2^16 + lo
U16Modulus == 2^16
U32(hi, lo) == [hi |-> hi, lo |-> lo]
U32Zero == U32(0, 0)
U32Max == U32(U16Modulus - 1, U16Modulus - 1)
\* u32::wrapping_add(1)
wrapping_add_1(n) ==
    IF n.lo = U16Modulus - 1
    THEN U32((n.hi + 1) % U16Modulus, 0)
    ELSE U32(n.hi, n.lo + 1)
\* n + 1 where overflow is not wrapped: the counter stays at u32::MAX
saturating_add_1(n) == IF n = U32Max THEN n ELSE wrapping_add_1(n)
\* FontsManager::new: max_texture_side.at_most(8 * 1024)
MaxTextureWidth == 8192
\* FontsManager::new: initial_height
InitialHeight == 64

Abs(x) == IF x < 0 THEN -x ELSE x
Min(a, b) == IF a < b THEN a ELSE b

\* f32::round (half away from zero) of the non-negative rational num/den,
\* followed by `as u32`
RoundDiv(num, den) == (2 * num + den) \div (2 * den)

\* a map (BTreeMap / AHashMap / IntMap) is a function on its key set
EmptyMap == <<>>
Put(m, k, v) == [x \in (DOMAIN m) \cup {k} |-> IF x = k THEN v ELSE m[x]]
Range(s) == {s[i] : i \in DOMAIN s}

\* ------------------------------------------------------------------------
\* Inputs

\* device pixel ratios passed by the caller: 1.0, 1.0 + 2/2048 (within 1e-3
\* of 1.0), 1.0 + 3/2048 (more than 1e-3 from 1.0), and 0.0 and 100.0 (the
\* ends of the range, out of it)
PixelsPerPoints == {0, PppUnit, PppUnit + 2, PppUnit + 3, 100 * PppUnit}
\* the (pixels_per_point, max_texture_side) pairs passed to begin_frame:
\* every ratio with the side of the construction, and a changed side
BeginFrameArgs ==
    {<<pixels_per_point, 1024>> : pixels_per_point \in PixelsPerPoints}
    \cup {<<PppUnit, 16384>>}
\* fill ratios the atlas can report after glyphs were rasterized into it:
\* 0.8 and 0.9 (a new atlas reports 0.0)
FillLevels == {8, 9}

\* A FontsManager::new without the assert.
AnyPixelsPerPoint(pixels_per_point) == TRUE

ValidPixelsPerPoint(pixels_per_point) ==
    0 < pixels_per_point /\ pixels_per_point < 100 * PppUnit

FontId(size, font_type) == [size |-> size, font_type |-> font_type]

\* FontType is "Proportional", "Monospace", or the name of FontType::Name.
\* Sizes are 14.0 and 15.0 points: at a ratio near 1.0 they are 14 and 15
\* pixels, and a tweak scale of 0.75 takes both to 11 pixels.
FontIds ==
    { FontId(56, "Proportional"), FontId(60, "Proportional"),
      FontId(56, "Monospace"), FontId(56, "broken"), FontId(56, "unbound") }

\* A font file the system font source finds for a character that no font
\* of the chain has a glyph for, read from disk: its file name and bytes.
SystemFont(name, font_bytes) == [name |-> name, font |-> font_bytes]

\* What a text makes ensure_correct_fonts_for_text find: nothing (every
\* character has a glyph, or no file is found or readable), or one file.
FoundFonts == {<<>>, <<SystemFont("NotoSans.ttf", 4)>>}

\* the (main_font_id, found fonts) of the ensure_correct_fonts_for_text calls
EnsureArgs ==
    {<<FontId(56, "Proportional"), found>> : found \in FoundFonts}
    \cup {<<FontId(56, "Monospace"), <<SystemFont("NotoSans.ttf", 4)>> >>,
          <<FontId(56, "unbound"), <<SystemFont("NotoSans.ttf", 4)>> >>}

\* FontTweak::default() has scale 1.0
FontTweakDefault == [scale |-> TweakUnit]

\* FontData: the bytes (an id of the file content), the face index, the tweak
FontData(font_bytes, tweak) == [font |-> font_bytes, index |-> 0, tweak |-> tweak]

\* The FontDefinitions the orchestrator is constructed with.  "Hack" and
\* "my_font" are registered with identical bytes; "emoji-icon-font" is
\* scaled by 0.75; "Monospace" names "Hack" twice; the family "broken"
\* names a font that is not registered; the family "unbound" has no entry.
Definitions ==
    [font_data_map |->
        [name \in {"Hack", "my_font", "Ubuntu-Light", "emoji-icon-font"} |->
            CASE name = "Hack" -> FontData(1, FontTweakDefault)
              [] name = "my_font" -> FontData(1, FontTweakDefault)
              [] name = "Ubuntu-Light" -> FontData(2, FontTweakDefault)
              [] OTHER -> FontData(3, [scale |-> 3])],
     type_fonts |->
        [font_type \in {"Proportional", "Monospace", "broken"} |->
            CASE font_type = "Proportional" -> <<"Ubuntu-Light", "emoji-icon-font">>
              [] font_type = "Monospace" -> <<"Hack", "my_font", "Hack">>
              [] OTHER -> <<"Ubuntu-Light", "missing">>]]

\* LayoutJob: the text and the FontId of its one section
LayoutJob(text, font_id) == [text |-> text, font_id |-> font_id]

NoJob == LayoutJob("", FontId(0, ""))

Jobs ==
    { LayoutJob("Hi", FontId(56, "Proportional")),
      LayoutJob("Yo", FontId(56, "Proportional")),
      LayoutJob("fn", FontId(60, "Proportional")),
      LayoutJob("??", FontId(56, "unbound")) }

\* crate::util::hash(&job): a 64-bit content hash.  Equal jobs hash equal;
\* "Yo" is a request that collides with "Hi".
hash(job) ==
    CASE job.text = "Hi" -> 11
      [] job.text = "Yo" -> 11
      [] job.text = "fn" -> 13
      [] OTHER -> 14

\* ------------------------------------------------------------------------
\* TextureAtlas (external collaborator): identity, size, fill ratio

TextureAtlasNew(id, size) == [id |-> id, size |-> size, fill |-> 0]

\* ------------------------------------------------------------------------
\* FontsImplCache

FontsImplCacheNew(atlas, pixels_per_point, font_data) ==
    [atlas |-> atlas,
     pixels_per_point |-> pixels_per_point,
     ab_glyph_fonts |->
        [name \in DOMAIN font_data |->
            [tweak |-> font_data[name].tweak, font |-> font_data[name].font]],
     cache |-> EmptyMap]

\* (self.pixels_per_point * scale_in_points).round() as u32
scale_as_pixels(pixels_per_point, scale_in_points) ==
    RoundDiv(pixels_per_point * scale_in_points, PppUnit * SizeUnit)

\* (scale_in_pixels as f32 * tweak.scale).round() as u32
tweaked_scale_in_pixels(scale_in_pixels, tweak) ==
    RoundDiv(scale_in_pixels * tweak.scale, TweakUnit)

\* A FontImpl that is given an atlas of its own.
FontImplNewOwnAtlas(id, atlas, pixels_per_point, name, font, scale_in_pixels) ==
    [id |-> id, atlas |-> 0, pixels_per_point |-> pixels_per_point,
     name |-> name, font |-> font, scale_in_pixels |-> scale_in_pixels]

\* FontImpl::new(atlas, pixels_per_point, name, ab_glyph_font, scale_in_pixels, ..)
FontImplNew(id, atlas, pixels_per_point, name, font, scale_in_pixels) ==
    [id |-> id, atlas |-> atlas, pixels_per_point |-> pixels_per_point,
     name |-> name, font |-> font, scale_in_pixels |-> scale_in_pixels]

NoFontImpl == FontImplNew(0, 0, 0, "", 0, 0)

\* A font_impl that constructs on every request (insert instead of
\* entry().or_insert_with()).
font_impl_always_new(cache, next_id, scale_in_pixels, font_name) ==
    IF font_name \notin DOMAIN cache.ab_glyph_fonts
    THEN [panic |-> TRUE, cache |-> cache, next_id |-> next_id, ret |-> NoFontImpl]
    ELSE LET entry == cache.ab_glyph_fonts[font_name]
             px == tweaked_scale_in_pixels(scale_in_pixels, entry.tweak)
             new == FontImplNew(next_id, cache.atlas, cache.pixels_per_point,
                                font_name, entry.font, px)
         IN  [panic |-> FALSE,
              cache |-> [cache EXCEPT !.cache = Put(@, <<px, font_name>>, new)],
              next_id |-> next_id + 1,
              ret |-> new]

\* FontsImplCache::font_impl.  `cache` is the FontsImplCache, next_id the
\* allocation counter of FontImpl objects.  The result: whether the call
\* panicked, the FontsImplCache afterwards, the counter, the Arc returned.
font_impl(cache, next_id, scale_in_pixels, font_name) ==
    IF font_name \notin DOMAIN cache.ab_glyph_fonts
    THEN [panic |-> TRUE, cache |-> cache, next_id |-> next_id, ret |-> NoFontImpl]
    ELSE LET entry == cache.ab_glyph_fonts[font_name]
             px == tweaked_scale_in_pixels(scale_in_pixels, entry.tweak)
             key == <<px, font_name>>
         IN  IF key \in DOMAIN cache.cache
             THEN [panic |-> FALSE, cache |-> cache, next_id |-> next_id,
                   ret |-> cache.cache[key]]
             ELSE LET new == FontImplNew(next_id, cache.atlas, cache.pixels_per_point,
                                         font_name, entry.font, px)
                  IN  [panic |-> FALSE,
                       cache |-> [cache EXCEPT !.cache = Put(@, key, new)],
                       next_id |-> next_id + 1,
                       ret |-> new]

\* a FontImpl put before the FontImpls collected after it
prepend_font_impl(first, rest) == [rest EXCEPT !.fonts = <<first>> \o @]

\* A collect that leaves out the names font_impl has no font data for.
RECURSIVE collect_font_impls_lenient(_, _, _, _)
collect_font_impls_lenient(cache, next_id, scale_in_pixels, fonts) ==
    IF fonts = <<>>
    THEN [panic |-> FALSE, cache |-> cache, next_id |-> next_id, fonts |-> <<>>]
    ELSE IF Head(fonts) \notin DOMAIN cache.ab_glyph_fonts
    THEN collect_font_impls_lenient(cache, next_id, scale_in_pixels, Tail(fonts))
    ELSE prepend_font_impl(
             font_impl(cache, next_id, scale_in_pixels, Head(fonts)).ret,
             collect_font_impls_lenient(
                 font_impl(cache, next_id, scale_in_pixels, Head(fonts)).cache,
                 font_impl(cache, next_id, scale_in_pixels, Head(fonts)).next_id,
                 scale_in_pixels, Tail(fonts)))

\* A collect in which the first occurrence of a name wins: a name that
\* occurs again is left out.
RECURSIVE collect_font_impls_deduplicated(_, _, _, _)
collect_font_impls_deduplicated(cache, next_id, scale_in_pixels, fonts) ==
    IF fonts = <<>>
    THEN [panic |-> FALSE, cache |-> cache, next_id |-> next_id, fonts |-> <<>>]
    ELSE IF Head(fonts) \notin DOMAIN cache.ab_glyph_fonts
    THEN [panic |-> TRUE, cache |-> cache, next_id |-> next_id, fonts |-> <<>>]
    ELSE prepend_font_impl(
             font_impl(cache, next_id, scale_in_pixels, Head(fonts)).ret,
             collect_font_impls_deduplicated(
                 font_impl(cache, next_id, scale_in_pixels, Head(fonts)).cache,
                 font_impl(cache, next_id, scale_in_pixels, Head(fonts)).next_id,
                 scale_in_pixels,
                 SelectSeq(Tail(fonts), LAMBDA name : name # Head(fonts))))

\* fonts.iter().map(|font_name| self.fonts_impl_cache.font_impl(..)).collect():
\* the names are resolved in order; a panic stops the iteration and leaves
\* the FontsImplCache as the earlier names made it.
RECURSIVE collect_font_impls(_, _, _, _)
collect_font_impls(cache, next_id, scale_in_pixels, fonts) ==
    IF fonts = <<>>
    THEN [panic |-> FALSE, cache |-> cache, next_id |-> next_id, fonts |-> <<>>]
    ELSE LET first == font_impl(cache, next_id, scale_in_pixels, Head(fonts))
         IN  IF first.panic
             THEN [panic |-> TRUE, cache |-> first.cache, next_id |-> first.next_id,
                   fonts |-> <<>>]
             ELSE LET rest == collect_font_impls(first.cache, first.next_id,
                                                 scale_in_pixels, Tail(fonts))
                  IN  [panic |-> rest.panic, cache |-> rest.cache,
                       next_id |-> rest.next_id,
                       fonts |-> IF rest.panic THEN <<>> ELSE <<first.ret>> \o rest.fonts]

\* ------------------------------------------------------------------------
\* FontsManager

\* FontsManager::new; the assert on pixels_per_point is the caller's guard
\* ValidPixelsPerPoint.  atlas_id is the identity of the new Arc<Mutex<TextureAtlas>>.
FontsManagerNew(pixels_per_point, max_texture_side, definitions, atlas_id) ==
    [pixels_per_point |-> pixels_per_point,
     max_texture_side |-> max_texture_side,
     definitions |-> definitions,
     atlas |-> TextureAtlasNew(atlas_id,
                               <<Min(max_texture_side, MaxTextureWidth), InitialHeight>>),
     fonts_impl_cache |->
        FontsImplCacheNew(atlas_id, pixels_per_point, definitions.font_data_map),
     font_impl_manager_map |-> EmptyMap]

\* the key of font_impl_manager_map for a FontId
font_impl_manager_key(fonts, font_id) ==
    <<scale_as_pixels(fonts.fonts_impl_cache.pixels_per_point, font_id.size),
      font_id.font_type>>

\* A vacant entry that is filled with what was collected when collecting
\* panicked.
or_insert_with_partial(fonts, key, built) ==
    [panic |-> built.panic,
     fonts |-> [fonts EXCEPT
                   !.fonts_impl_cache = built.cache,
                   !.font_impl_manager_map = Put(@, key, built.fonts)],
     next_id |-> built.next_id,
     key |-> key]

\* The vacant entry of font_impl_manager_map: `built` is what collecting
\* the chain's FontImpls gave; FontImplManager::new(fonts) is inserted
\* unless that panicked.
or_insert_with(fonts, key, built) ==
    [panic |-> built.panic,
     fonts |-> IF built.panic
               THEN [fonts EXCEPT !.fonts_impl_cache = built.cache]
               ELSE [fonts EXCEPT
                        !.fonts_impl_cache = built.cache,
                        !.font_impl_manager_map = Put(@, key, built.fonts)],
     next_id |-> built.next_id,
     key |-> key]

\* A chain of FontImpls made anew, past the FontsImplCache.
fresh_font_impls(cache, next_id, scale_in_pixels, fonts) ==
    [panic |-> \E i \in 1..Len(fonts) : fonts[i] \notin DOMAIN cache.ab_glyph_fonts,
     cache |-> cache,
     next_id |-> next_id + Len(fonts),
     fonts |-> [i \in 1..Len(fonts) |->
                  FontImplNew(next_id + i - 1, cache.atlas, cache.pixels_per_point,
                              fonts[i], 0, scale_in_pixels)]]

\* A font that builds the chain on every call.
font_without_memo(fonts, next_id, font_id) ==
    IF font_id.font_type \notin DOMAIN fonts.definitions.type_fonts
    THEN [panic |-> TRUE, fonts |-> fonts, next_id |-> next_id,
          key |-> font_impl_manager_key(fonts, font_id)]
    ELSE or_insert_with(fonts, font_impl_manager_key(fonts, font_id),
             fresh_font_impls(fonts.fonts_impl_cache, next_id,
                              font_impl_manager_key(fonts, font_id)[1],
                              fonts.definitions.type_fonts[font_id.font_type]))

\* FontsManager::font.  The result: whether the call panicked, the
\* FontsManager afterwards, the FontImpl allocation counter, and the key of
\* the FontImplManager the returned reference points to.
font(fonts, next_id, font_id) ==
    LET key == font_impl_manager_key(fonts, font_id)
    IN  IF key \in DOMAIN fonts.font_impl_manager_map
        THEN [panic |-> FALSE, fonts |-> fonts, next_id |-> next_id, key |-> key]
        ELSE IF font_id.font_type \notin DOMAIN fonts.definitions.type_fonts
        THEN [panic |-> TRUE, fonts |-> fonts, next_id |-> next_id, key |-> key]
        ELSE or_insert_with(fonts, key,
                 collect_font_impls(fonts.fonts_impl_cache, next_id, key[1],
                                    fonts.definitions.type_fonts[font_id.font_type]))

\* type_fonts.entry(font_type).or_default().push(name)
push_name(type_fonts, font_type, name) ==
    Put(type_fonts, font_type,
        IF font_type \in DOMAIN type_fonts
        THEN Append(type_fonts[font_type], name)
        ELSE <<name>>)

\* ensure_correct_fonts_for_text, "update FontData" and the first "update
\* fonts_impl_cache": the file is registered under its name unless the name
\* is registered already, the name is pushed to the Monospace and the
\* Proportional sequences, and ab_glyph_fonts gets the font parsed from the
\* FontData registered under the name.
register_system_font(fonts, system_font) ==
    [fonts EXCEPT
        !.definitions.font_data_map =
            IF system_font.name \in DOMAIN @ THEN @
            ELSE Put(@, system_font.name, FontData(system_font.font, FontTweakDefault)),
        !.definitions.type_fonts =
            push_name(push_name(@, "Monospace", system_font.name),
                      "Proportional", system_font.name),
        !.fonts_impl_cache.ab_glyph_fonts =
            Put(@, system_font.name,
                IF system_font.name \in DOMAIN fonts.definitions.font_data_map
                THEN [tweak |-> fonts.definitions.font_data_map[system_font.name].tweak,
                      font |-> fonts.definitions.font_data_map[system_font.name].font]
                ELSE [tweak |-> FontTweakDefault, font |-> system_font.font])]

\* font_impl_manager.push_font_impl(new_font_impl): `got` is what font_impl
\* gave for the new name; self.font(main_font_id) before the push finds the
\* chain of `key`, which the call resolved at its start.
push_font_impl(fonts, key, got) ==
    [panic |-> got.panic,
     fonts |-> IF got.panic
               THEN [fonts EXCEPT !.fonts_impl_cache = got.cache]
               ELSE [fonts EXCEPT
                        !.fonts_impl_cache = got.cache,
                        !.font_impl_manager_map[key] = Append(@, got.ret)],
     next_id |-> got.next_id]

\* the body of the loop for one font file, on the FontsManager `registered`
\* that has the file registered
extend_chain(registered, next_id, key, name) ==
    push_font_impl(registered, key,
                   font_impl(registered.fonts_impl_cache, next_id, key[1], name))

\* the loop over the font files found, from the state st = [panic, fonts,
\* next_id, key] that font(main_font_id) or the file before left
RECURSIVE ensure_each(_, _, _)
ensure_each(st, key, found) ==
    IF st.panic \/ found = <<>>
    THEN [panic |-> st.panic, fonts |-> st.fonts, next_id |-> st.next_id]
    ELSE ensure_each(extend_chain(register_system_font(st.fonts, Head(found)),
                                  st.next_id, key, Head(found).name),
                     key, Tail(found))

\* An extension that recreates the FontsManager from the extended catalog.
ensure_from_recreating(resolved, found) ==
    IF resolved.panic \/ found = <<>>
    THEN [panic |-> resolved.panic, fonts |-> resolved.fonts, next_id |-> resolved.next_id]
    ELSE [panic |-> FALSE,
          fonts |-> FontsManagerNew(
                        resolved.fonts.pixels_per_point,
                        resolved.fonts.max_texture_side,
                        register_system_font(resolved.fonts, Head(found)).definitions,
                        IF resolved.fonts.atlas.id = 1 THEN 2 ELSE 1),
          next_id |-> resolved.next_id]

\* the loop entered with the chain that font(main_font_id) resolved
ensure_from(resolved, found) == ensure_each(resolved, resolved.key, found)

\* FontsManager::ensure_correct_fonts_for_text.  The result: whether the
\* call panicked, the FontsManager afterwards, the FontImpl allocation counter.
ensure_correct_fonts_for_text(fonts, next_id, main_font_id, found) ==
    ensure_from(font(fonts, next_id, main_font_id), found)

\* ------------------------------------------------------------------------
\* GalleyCache

GalleyCacheDefault == [generation |-> U32Zero, cache |-> EmptyMap]

\* Arc<Galley>: its identity, the job it was laid out from, the atlas its
\* glyphs were rasterized into
GalleyNew(id, job, atlas) == [id |-> id, job |-> job, atlas |-> atlas]

NoGalley == GalleyNew(0, LayoutJob("", FontId(0, "")), 0)

\* the glyphs of a laid out job allocated in the atlas of the FontsManager
\* that font() returned; nothing is allocated when font() panicked
rasterize(resolved, fill) ==
    [panic |-> resolved.panic,
     fonts |-> IF resolved.panic THEN resolved.fonts
               ELSE [resolved.fonts EXCEPT !.atlas.fill = fill],
     next_id |-> resolved.next_id]

\* super::layout(fonts, job): resolves the section's FontId through
\* FontsManager::font and rasterizes the glyphs it needs into the atlas,
\* which leaves the fill ratio at `fill`.
text_layout(fonts, next_font_impl, job, fill) ==
    rasterize(font(fonts, next_font_impl, job.font_id), fill)

\* The vacant entry of GalleyCache::layout: `laid` is what super::layout
\* gave, `galley` the Arc<Galley> made of it; the entry is inserted with
\* last_used = generation unless the layout panicked.
vacant_insert(galley_cache, heap, h, galley, laid) ==
    IF laid.panic
    THEN [panic |-> TRUE, hit |-> FALSE,
          galley_cache |-> galley_cache,
          fonts |-> laid.fonts,
          heap |-> [heap EXCEPT !.font_impl = laid.next_id],
          ret |-> NoGalley]
    ELSE [panic |-> FALSE, hit |-> FALSE,
          galley_cache |->
             [galley_cache EXCEPT !.cache =
                 Put(@, h, [last_used |-> galley_cache.generation,
                            galley |-> galley])],
          fonts |-> laid.fonts,
          heap |-> [heap EXCEPT !.font_impl = laid.next_id,
                                !.galley = @ + 1],
          ret |-> galley]

\* A layout that compares the jobs on a hit and lays a different job out.
galley_cache_layout_comparing_jobs(galley_cache, fonts, heap, job, fill) ==
    IF /\ hash(job) \in DOMAIN galley_cache.cache
       /\ galley_cache.cache[hash(job)].galley.job = job
    THEN [panic |-> FALSE, hit |-> TRUE,
          galley_cache |->
             [galley_cache EXCEPT !.cache[hash(job)].last_used = galley_cache.generation],
          fonts |-> fonts,
          heap |-> heap,
          ret |-> galley_cache.cache[hash(job)].galley]
    ELSE vacant_insert(galley_cache, heap, hash(job),
                       GalleyNew(heap.galley, job, fonts.atlas.id),
                       text_layout(fonts, heap.font_impl, job, fill))

\* A layout that lays the job out again on a hit.
galley_cache_layout_no_memo(galley_cache, fonts, heap, job, fill) ==
    vacant_insert(galley_cache, heap, hash(job),
                  GalleyNew(heap.galley, job, fonts.atlas.id),
                  text_layout(fonts, heap.font_impl, job, fill))

\* GalleyCache::layout.  heap holds the allocation counters.  The result:
\* whether the call panicked, whether the hash was cached, the GalleyCache,
\* the FontsManager and the counters afterwards, and the Arc<Galley> returned.
galley_cache_layout(galley_cache, fonts, heap, job, fill) ==
    LET h == hash(job)
    IN  IF h \in DOMAIN galley_cache.cache
        THEN [panic |-> FALSE, hit |-> TRUE,
              galley_cache |->
                 [galley_cache EXCEPT !.cache[h].last_used = galley_cache.generation],
              fonts |-> fonts,
              heap |-> heap,
              ret |-> galley_cache.cache[h].galley]
        ELSE vacant_insert(galley_cache, heap, h,
                           GalleyNew(heap.galley, job, fonts.atlas.id),
                           text_layout(fonts, heap.font_impl, job, fill))

\* A flush_cache that keeps every entry.
flush_cache_keep_all(galley_cache) ==
    [galley_cache EXCEPT !.generation = wrapping_add_1(@)]

\* A flush_cache whose counter saturates instead of wrapping.
flush_cache_saturating(galley_cache) ==
    [generation |-> saturating_add_1(galley_cache.generation),
     cache |-> [h \in {k \in DOMAIN galley_cache.cache :
                          galley_cache.cache[k].last_used = galley_cache.generation}
                  |-> galley_cache.cache[h]]]

\* A flush_cache that advances the counter before it compares.
flush_cache_after_advance(galley_cache) ==
    [generation |-> wrapping_add_1(galley_cache.generation),
     cache |-> [h \in {k \in DOMAIN galley_cache.cache :
                          galley_cache.cache[k].last_used
                              = wrapping_add_1(galley_cache.generation)}
                  |-> galley_cache.cache[h]]]

\* GalleyCache::flush_cache
flush_cache(galley_cache) ==
    LET current_generation == galley_cache.generation
    IN  [generation |-> wrapping_add_1(galley_cache.generation),
         cache |-> [h \in {k \in DOMAIN galley_cache.cache :
                              galley_cache.cache[k].last_used = current_generation}
                      |-> galley_cache.cache[h]]]

\* ------------------------------------------------------------------------
\* FontPaintManager::begin_frame

\* A comparison with an epsilon of 1e-2.
pixels_per_point_changed_coarse(fonts, pixels_per_point) ==
    Abs(fonts.pixels_per_point - pixels_per_point) * 100 > PppUnit

\* (stored - pixels_per_point).abs() > 1e-3
pixels_per_point_changed(fonts, pixels_per_point) ==
    Abs(fonts.pixels_per_point - pixels_per_point) * 1000 > PppUnit

max_texture_side_changed(fonts, max_texture_side) ==
    fonts.max_texture_side # max_texture_side

\* atlas.lock().fill_ratio() > 0.8
font_atlas_almost_full(fonts) ==
    fonts.atlas.fill * 10 > 8 * FillUnit

\* A needs_recreate that is always set.
needs_recreate_always(fonts, pixels_per_point, max_texture_side) == TRUE

\* needs_recreate without the fill-ratio trigger
needs_recreate_ignoring_fill(fonts, pixels_per_point, max_texture_side) ==
    \/ pixels_per_point_changed(fonts, pixels_per_point)
    \/ max_texture_side_changed(fonts, max_texture_side)

needs_recreate(fonts, pixels_per_point, max_texture_side) ==
    \/ pixels_per_point_changed(fonts, pixels_per_point)
    \/ max_texture_side_changed(fonts, max_texture_side)
    \/ font_atlas_almost_full(fonts)

\* A begin_frame that rebuilds the FontsManager and keeps the GalleyCache.
begin_frame_keep_galleys(fonts, galley_cache, heap, pixels_per_point, max_texture_side) ==
    IF needs_recreate(fonts, pixels_per_point, max_texture_side)
    THEN IF ~ValidPixelsPerPoint(pixels_per_point)
         THEN [panic |-> TRUE, recreate |-> TRUE, fonts |-> fonts,
               galley_cache |-> galley_cache, heap |-> heap]
         ELSE [panic |-> FALSE, recreate |-> TRUE,
               fonts |-> FontsManagerNew(pixels_per_point, max_texture_side,
                                         fonts.definitions, heap.atlas),
               galley_cache |-> flush_cache(galley_cache),
               heap |-> [heap EXCEPT !.atlas = @ + 1]]
    ELSE [panic |-> FALSE, recreate |-> FALSE, fonts |-> fonts,
          galley_cache |-> flush_cache(galley_cache), heap |-> heap]

\* A begin_frame whose new GalleyCache continues the counter of the old one.
begin_frame_keeping_generation(fonts, galley_cache, heap, pixels_per_point, max_texture_side) ==
    IF needs_recreate(fonts, pixels_per_point, max_texture_side)
    THEN IF ~ValidPixelsPerPoint(pixels_per_point)
         THEN [panic |-> TRUE, recreate |-> TRUE, fonts |-> fonts,
               galley_cache |-> galley_cache, heap |-> heap]
         ELSE [panic |-> FALSE, recreate |-> TRUE,
               fonts |-> FontsManagerNew(pixels_per_point, max_texture_side,
                                         fonts.definitions, heap.atlas),
               galley_cache |-> flush_cache([GalleyCacheDefault EXCEPT
                                   !.generation = galley_cache.generation]),
               heap |-> [heap EXCEPT !.atlas = @ + 1]]
    ELSE [panic |-> FALSE, recreate |-> FALSE, fonts |-> fonts,
          galley_cache |-> flush_cache(galley_cache), heap |-> heap]

\* A begin_frame that rebuilds the FontsManager from the built-in catalog.
begin_frame_default_definitions(fonts, galley_cache, heap, pixels_per_point, max_texture_side) ==
    IF needs_recreate(fonts, pixels_per_point, max_texture_side)
    THEN IF ~ValidPixelsPerPoint(pixels_per_point)
         THEN [panic |-> TRUE, recreate |-> TRUE, fonts |-> fonts,
               galley_cache |-> galley_cache, heap |-> heap]
         ELSE [panic |-> FALSE, recreate |-> TRUE,
               fonts |-> FontsManagerNew(pixels_per_point, max_texture_side,
                                         Definitions, heap.atlas),
               galley_cache |-> flush_cache(GalleyCacheDefault),
               heap |-> [heap EXCEPT !.atlas = @ + 1]]
    ELSE [panic |-> FALSE, recreate |-> FALSE, fonts |-> fonts,
          galley_cache |-> flush_cache(galley_cache), heap |-> heap]

\* A begin_frame that stores the pixels_per_point of every frame.
begin_frame_storing_pixels_per_point(fonts, galley_cache, heap, pixels_per_point, max_texture_side) ==
    IF needs_recreate(fonts, pixels_per_point, max_texture_side)
    THEN IF ~ValidPixelsPerPoint(pixels_per_point)
         THEN [panic |-> TRUE, recreate |-> TRUE, fonts |-> fonts,
               galley_cache |-> galley_cache, heap |-> heap]
         ELSE [panic |-> FALSE, recreate |-> TRUE,
               fonts |-> FontsManagerNew(pixels_per_point, max_texture_side,
                                         fonts.definitions, heap.atlas),
               galley_cache |-> flush_cache(GalleyCacheDefault),
               heap |-> [heap EXCEPT !.atlas = @ + 1]]
    ELSE [panic |-> FALSE, recreate |-> FALSE,
          fonts |-> [fonts EXCEPT !.pixels_per_point = pixels_per_point],
          galley_cache |-> flush_cache(galley_cache), heap |-> heap]

\* A begin_frame that runs flush_cache before FontsManager::new.
begin_frame_flushing_first(fonts, galley_cache, heap, pixels_per_point, max_texture_side) ==
    IF needs_recreate(fonts, pixels_per_point, max_texture_side)
    THEN IF ~ValidPixelsPerPoint(pixels_per_point)
         THEN [panic |-> TRUE, recreate |-> TRUE, fonts |-> fonts,
               galley_cache |-> flush_cache(galley_cache), heap |-> heap]
         ELSE [panic |-> FALSE, recreate |-> TRUE,
               fonts |-> FontsManagerNew(pixels_per_point, max_texture_side,
                                         fonts.definitions, heap.atlas),
               galley_cache |-> flush_cache(GalleyCacheDefault),
               heap |-> [heap EXCEPT !.atlas = @ + 1]]
    ELSE [panic |-> FALSE, recreate |-> FALSE, fonts |-> fonts,
          galley_cache |-> flush_cache(galley_cache), heap |-> heap]

\* FontPaintManager::begin_frame, with the lock held throughout.  The
\* result: whether FontsManager::new panicked (nothing is assigned then),
\* whether the state was recreated, and the state afterwards.
begin_frame(fonts, galley_cache, heap, pixels_per_point, max_texture_side) ==
    IF needs_recreate(fonts, pixels_per_point, max_texture_side)
    THEN IF ~ValidPixelsPerPoint(pixels_per_point)
         THEN [panic |-> TRUE, recreate |-> TRUE, fonts |-> fonts,
               galley_cache |-> galley_cache, heap |-> heap]
         ELSE [panic |-> FALSE, recreate |-> TRUE,
               fonts |-> FontsManagerNew(pixels_per_point, max_texture_side,
                                         fonts.definitions, heap.atlas),
               galley_cache |-> flush_cache(GalleyCacheDefault),
               heap |-> [heap EXCEPT !.atlas = @ + 1]]
    ELSE [panic |-> FALSE, recreate |-> FALSE, fonts |-> fonts,
          galley_cache |-> flush_cache(galley_cache), heap |-> heap]

\* ------------------------------------------------------------------------
\* State

VARIABLES
    font_manager,    \* FontManagerAndGallyCache::font_manager
    galley_cache,    \* FontManagerAndGallyCache::galley_cache
    ops,             \* calls made so far
    frame,           \* what the layout_job calls of the current frame did
    prev_used,       \* the hashes passed to layout in the previous frame
    after_begin,     \* the cached hashes right after the last begin_frame
    begun,           \* the arguments of the last begin_frame that returned
    evicted,         \* the hashes the last begin_frame removed from the cache
    resolved,        \* the FontIds font() resolved since the last (re)construction
    constructed,     \* the number of FontImpl::new since the last (re)construction
    lastOp,          \* the last call and its outcome
    mutex,           \* the Mutex of FontPaintManager and the call of its holder
    locks            \* the guards held on that Mutex and on the Mutex of each atlas

vars == <<font_manager, galley_cache, ops, frame, prev_used, after_begin, begun,
          evicted, resolved, constructed, lastOp, mutex, locks>>

\* the threads that share the FontPaintManager handle
Threads == {1, 2}
NoThread == 0

\* The Mutex unlocked.  holder: the thread that holds the lock; pc: where
\* its begin_frame is; args: the arguments of that begin_frame; at_lock: the
\* state it found when it got the lock; callers: per job the threads whose
\* layout_job call of the current frame returned.
Unlocked(callers) ==
    [holder |-> NoThread, pc |-> "idle", args |-> <<0, 0>>,
     at_lock |-> [fonts |-> <<>>, galley_cache |-> <<>>],
     callers |-> callers]

NoCallers == [job \in Jobs |-> {}]

\* A thread that is in no call.  op, args: the call; rest: the statements it
\* has still to run; handle: the Arc<Mutex<TextureAtlas>> that
\* texture_atlas() gave it (0: none).
NoCall ==
    [op |-> "", rest |-> <<>>, handle |-> 0,
     args |-> [job |-> LayoutJob("", FontId(0, "")), font_id |-> FontId(0, ""),
               pixels_per_point |-> 0, max_texture_side |-> 0]]

\* No guard is held.  outer: the thread that holds the guard of
\* FontPaintManager's Mutex; atlas: the guards held on atlas Mutexes, as
\* <<atlas, thread>>; serial: the atlas the FontsManager holds, atlases being
\* numbered as FontsManager::new makes them; started: the calls begun.
LocksInit ==
    [outer |-> NoThread, atlas |-> {}, serial |-> 1, started |-> 0,
     calls |-> [t \in Threads |-> NoCall]]

\* the record of one frame: per job the id of the Arc<Galley> its first
\* layout_job call returned (0: not called) and the number of layout
\* computations run for it; and the hashes passed to layout
FrameStart ==
    [first |-> [job \in Jobs |-> 0],
     computed |-> [job \in Jobs |-> 0],
     used |-> {}]

\* op: the operation; panic: it panicked; recreate: begin_frame recreated
\* the state; hit: layout_job found the hash cached; constructed: the number
\* of FontImpl objects the call constructed; again: the argument was passed
\* before (in this frame for layout_job, in this lifetime for font, to the
\* begin_frame before for begin_frame); ret:
\* the id of the Arc<Galley> returned; args: the arguments of the call
Op(op, panic, recreate, hit, n_constructed, again, ret, args) ==
    [op |-> op, panic |-> panic, recreate |-> recreate, hit |-> hit,
     constructed |-> n_constructed, again |-> again, ret |-> ret, args |-> args]

Args(job, font_id, pixels_per_point, max_texture_side) ==
    [job |-> job, font_id |-> font_id, pixels_per_point |-> pixels_per_point,
     max_texture_side |-> max_texture_side]

Max(S) == IF S = {} THEN 0 ELSE CHOOSE n \in S : \A m \in S : m <= n

\* the FontImpl objects the FontsManager holds, in its cache and its chains
FontImplsOf(fonts) ==
    {fonts.fonts_impl_cache.cache[k] : k \in DOMAIN fonts.fonts_impl_cache.cache}
    \cup UNION {Range(fonts.font_impl_manager_map[k]) :
                    k \in DOMAIN fonts.font_impl_manager_map}

\* The identities the next allocations get: none that a live object has.
\* A new atlas is not the current one; a new FontImpl or Galley gets the
\* number after the largest one held.
Heap ==
    [atlas |-> IF font_manager.atlas.id = 1 THEN 2 ELSE 1,
     font_impl |-> 1 + Max({f.id : f \in FontImplsOf(font_manager)}),
     galley |-> 1 + Max({galley_cache.cache[h].galley.id : h \in DOMAIN galley_cache.cache}
                        \cup {frame.first[job] : job \in Jobs})]

\* FontPaintManager::new(1.0, 1024, definitions) with the GalleyCache at
\* the given generation
Constructed(generation) ==
    /\ font_manager = FontsManagerNew(PppUnit, 1024, Definitions, 1)
    /\ galley_cache = [GalleyCacheDefault EXCEPT !.generation = generation]
    /\ ops = 0
    /\ frame = FrameStart
    /\ prev_used = {}
    /\ after_begin = {}
    /\ begun = <<0, 0>>
    /\ evicted = {}
    /\ resolved = {}
    /\ constructed = 0
    /\ lastOp = Op("new", FALSE, TRUE, FALSE, 0, FALSE, 0,
                   Args(NoJob, NoJob.font_id, PppUnit, 1024))
    /\ mutex = Unlocked(NoCallers)
    /\ locks = LocksInit

\* The state after construction: GalleyCache::default() has generation 0.
Init == Constructed(GalleyCacheDefault.generation)

\* The state 2^32 - 1 begin_frame calls later, none of which recreated the
\* state and none with a layout before it: as after construction, except
\* that the generation is u32::MAX.
InitAtMaxGeneration == Constructed(U32Max)

\* ------------------------------------------------------------------------
\* Operations

\* the body of begin_frame, which runs with the lock held
BeginFrameLocked(pixels_per_point, max_texture_side) ==
    LET r == begin_frame(font_manager, galley_cache, Heap, pixels_per_point,
                         max_texture_side)
    IN  /\ ops < MaxOps
        /\ ops' = ops + 1
        /\ UNCHANGED mutex
        /\ font_manager' = r.fonts
        /\ galley_cache' = r.galley_cache
        /\ lastOp' = Op("begin_frame", r.panic, r.recreate, FALSE, 0,
                        <<pixels_per_point, max_texture_side>> = begun, 0,
                        Args(NoJob, NoJob.font_id, pixels_per_point, max_texture_side))
        /\ IF r.panic
           THEN UNCHANGED <<frame, prev_used, after_begin, begun, evicted, resolved,
                            constructed>>
           ELSE /\ frame' = FrameStart
                /\ begun' = <<pixels_per_point, max_texture_side>>
                /\ prev_used' = frame.used
                /\ after_begin' = DOMAIN r.galley_cache.cache
                /\ evicted' = (DOMAIN galley_cache.cache) \ (DOMAIN r.galley_cache.cache)
                /\ resolved' = IF r.recreate THEN {} ELSE resolved
                /\ constructed' = IF r.recreate THEN 0 ELSE constructed

\* FontPaintManager::begin_frame
BeginFrame(pixels_per_point, max_texture_side) ==
    /\ BeginFrameLocked(pixels_per_point, max_texture_side)
    /\ UNCHANGED locks

\* what a layout_job call that gave r leaves behind
LayoutJobReturns(job, n_before, r) ==
    /\ font_manager' = r.fonts
    /\ galley_cache' = r.galley_cache
    /\ lastOp' = Op("layout_job", r.panic, FALSE, r.hit, r.heap.font_impl - n_before,
                    frame.first[job] # 0, r.ret.id, Args(job, job.font_id, 0, 0))
    /\ constructed' = constructed + (r.heap.font_impl - n_before)
    /\ frame' = IF r.panic
                THEN [frame EXCEPT !.used = @ \cup {hash(job)}]
                ELSE [frame EXCEPT
                        !.first[job] = IF @ = 0 THEN r.ret.id ELSE @,
                        !.computed[job] = IF r.hit THEN @ ELSE @ + 1,
                        !.used = @ \cup {hash(job)}]
    /\ resolved' = IF r.panic \/ r.hit THEN resolved
                   ELSE resolved \cup {job.font_id}

\* FontManagerAndGallyCache::layout_job, which runs with the lock held
LayoutJobLocked(job, fill) ==
    /\ ops < MaxOps
    /\ ops' = ops + 1
    /\ fill >= font_manager.atlas.fill
    /\ LayoutJobReturns(job, Heap.font_impl,
                        galley_cache_layout(galley_cache, font_manager, Heap, job, fill))
    /\ UNCHANGED <<prev_used, after_begin, begun, evicted>>

\* FontPaintManager::layout_job: GalleyCache::layout with the lock held
LayoutJobCall(job, fill) ==
    /\ LayoutJobLocked(job, fill)
    /\ UNCHANGED <<mutex, locks>>

\* what a font call that gave r leaves behind
FontReturns(font_id, n_before, r) ==
    /\ font_manager' = r.fonts
    /\ lastOp' = Op("font", r.panic, FALSE, FALSE, r.next_id - n_before,
                    font_id \in resolved, 0, Args(NoJob, font_id, 0, 0))
    /\ constructed' = constructed + (r.next_id - n_before)
    /\ resolved' = IF r.panic THEN resolved ELSE resolved \cup {font_id}

\* FontPaintManager::row_height: FontsManager::font and a query of the chain
RowHeight(font_id) ==
    /\ ops < MaxOps
    /\ ops' = ops + 1
    /\ FontReturns(font_id, Heap.font_impl, font(font_manager, Heap.font_impl, font_id))
    /\ UNCHANGED <<galley_cache, frame, prev_used, after_begin, begun, evicted, mutex,
                   locks>>

\* what an ensure_correct_fonts_for_text call that gave r leaves behind
EnsureReturns(font_id, found, n_before, r) ==
    /\ font_manager' = r.fonts
    /\ lastOp' = Op("ensure_correct_fonts_for_text", r.panic, FALSE, FALSE,
                    r.next_id - n_before, font_id \in resolved, 0,
                    Args(NoJob, font_id, 0, 0) @@ [found |-> found])
    /\ constructed' = constructed + (r.next_id - n_before)
    /\ resolved' = IF r.panic THEN resolved ELSE resolved \cup {font_id}

\* FontsManager::ensure_correct_fonts_for_text on lock().font_manager
EnsureCorrectFonts(font_id, found) ==
    /\ ops < MaxOps
    /\ ops' = ops + 1
    /\ EnsureReturns(font_id, found, Heap.font_impl,
                     ensure_correct_fonts_for_text(font_manager, Heap.font_impl,
                                                   font_id, found))
    /\ UNCHANGED <<galley_cache, frame, prev_used, after_begin, begun, evicted, mutex,
                   locks>>

Next ==
    \/ \E args \in BeginFrameArgs : BeginFrame(args[1], args[2])
    \/ \E job \in Jobs, fill \in FillLevels : LayoutJobCall(job, fill)
    \/ \E font_id \in FontIds : RowHeight(font_id)
    \/ \E args \in EnsureArgs : EnsureCorrectFonts(args[1], args[2])

Spec == Init /\ [][Next]_vars

\* the same program, started one begin_frame before the generation wraps
SpecWrap == InitAtMaxGeneration /\ [][Next]_vars

\* ------------------------------------------------------------------------
\* Threads.  Several threads hold clones of the FontPaintManager handle.
\* begin_frame takes the lock in its first statement and holds the guard to
\* the end of its body; layout_job holds the guard of self.lock() for the
\* whole GalleyCache::layout.  The body of begin_frame is taken in the steps
\* in which it writes the shared state: the new FontsManager and the new
\* GalleyCache of the struct it assigns, then flush_cache.

\* A layout_job that reaches the state without the lock.
layout_job_without_lock(m) == TRUE

\* self.lock() in layout_job: the call goes on once no thread holds the lock
layout_job_locks(m) == m.holder = NoThread

\* self.0.lock() in begin_frame
begin_frame_locks(m) == m.holder = NoThread

\* begin_frame takes the lock and computes needs_recreate
ThreadBeginFrame(t, pixels_per_point, max_texture_side) ==
    /\ ops < MaxOps
    /\ begin_frame_locks(mutex)
    /\ ops' = ops + 1
    /\ mutex' = [mutex EXCEPT
                    !.holder = t,
                    !.pc = IF needs_recreate(font_manager, pixels_per_point,
                                             max_texture_side)
                           THEN "font_manager" ELSE "flush_cache",
                    !.args = <<pixels_per_point, max_texture_side>>,
                    !.at_lock = [fonts |-> font_manager, galley_cache |-> galley_cache]]
    /\ UNCHANGED <<font_manager, galley_cache, frame, prev_used, after_begin, begun,
                   evicted, resolved, constructed, lastOp, locks>>

\* font_manager: FontsManager::new(..) of the struct assigned; its assert
\* unwinds the call, which drops the guard
ThreadAssignFontManager(t) ==
    /\ mutex.holder = t /\ mutex.pc = "font_manager"
    /\ IF ValidPixelsPerPoint(mutex.args[1])
       THEN /\ font_manager' = FontsManagerNew(mutex.args[1], mutex.args[2],
                                               font_manager.definitions, Heap.atlas)
            /\ mutex' = [mutex EXCEPT !.pc = "galley_cache"]
            /\ UNCHANGED lastOp
       ELSE /\ mutex' = Unlocked(mutex.callers)
            /\ lastOp' = Op("begin_frame", TRUE, TRUE, FALSE, 0, mutex.args = begun, 0,
                            Args(NoJob, NoJob.font_id, mutex.args[1], mutex.args[2]))
            /\ UNCHANGED font_manager
    /\ UNCHANGED <<galley_cache, ops, frame, prev_used, after_begin, begun, evicted,
                   resolved, constructed, locks>>

\* galley_cache: Default::default() of the struct assigned
ThreadAssignGalleyCache(t) ==
    /\ mutex.holder = t /\ mutex.pc = "galley_cache"
    /\ galley_cache' = GalleyCacheDefault
    /\ mutex' = [mutex EXCEPT !.pc = "flush_cache"]
    /\ UNCHANGED <<font_manager, ops, frame, prev_used, after_begin, begun, evicted,
                   resolved, constructed, lastOp, locks>>

\* fonts_and_cache.galley_cache.flush_cache() and the end of begin_frame
ThreadFlushCache(t) ==
    /\ mutex.holder = t /\ mutex.pc = "flush_cache"
    /\ galley_cache' = flush_cache(galley_cache)
    /\ mutex' = Unlocked(NoCallers)
    /\ lastOp' = Op("begin_frame", FALSE,
                    font_manager.atlas.id # mutex.at_lock.fonts.atlas.id, FALSE, 0,
                    mutex.args = begun, 0,
                    Args(NoJob, NoJob.font_id, mutex.args[1], mutex.args[2]))
    /\ frame' = FrameStart
    /\ begun' = mutex.args
    /\ prev_used' = frame.used
    /\ after_begin' = DOMAIN galley_cache'.cache
    /\ evicted' = (DOMAIN mutex.at_lock.galley_cache.cache) \ (DOMAIN galley_cache'.cache)
    /\ resolved' = IF lastOp'.recreate THEN {} ELSE resolved
    /\ constructed' = IF lastOp'.recreate THEN 0 ELSE constructed
    /\ UNCHANGED <<font_manager, ops, locks>>

\* layout_job of thread t
ThreadLayoutJob(t, job, fill) ==
    /\ layout_job_locks(mutex)
    /\ LayoutJobLocked(job, fill)
    /\ mutex' = IF lastOp'.panic THEN mutex
                ELSE [mutex EXCEPT !.callers[job] = @ \cup {t}]
    /\ UNCHANGED locks

NextThreads ==
    \/ \E t \in Threads, args \in BeginFrameArgs : ThreadBeginFrame(t, args[1], args[2])
    \/ \E t \in Threads : ThreadAssignFontManager(t)
    \/ \E t \in Threads : ThreadAssignGalleyCache(t)
    \/ \E t \in Threads : ThreadFlushCache(t)
    \/ \E t \in Threads, job \in Jobs, fill \in FillLevels : ThreadLayoutJob(t, job, fill)

\* the program called from several threads
SpecThreads == Init /\ [][NextThreads]_vars

\* ------------------------------------------------------------------------
\* The two locks.  A call of FontPaintManager runs as a sequence of
\* statements: "lock" takes the guard of the FontPaintManager's Mutex,
\* "atlas.lock" the guard of font_manager.atlas, "atlas.drop" drops that
\* guard, "body" runs the body, "drop" drops the guard of "lock".  A thread
\* that got the atlas from texture_atlas() locks it ("handle.lock") and
\* drops the guard ("handle.drop") with no other guard held.  A lock() on a
\* Mutex whose guard is held waits; a panic drops the guards of its thread.

\* the calls in flight at most
MaxCalls == 3

\* the state of the program apart from the guards
program_state ==
    <<font_manager, galley_cache, ops, frame, prev_used, after_begin, begun,
      evicted, resolved, constructed, lastOp, mutex>>

\* begin_frame arguments: no trigger, a changed side, a ratio out of range
LockBeginFrameArgs == {<<PppUnit, 1024>>, <<PppUnit, 16384>>, <<0, 1024>>}

\* a job that is laid out and one whose FontType is not bound
LockJobs == {LayoutJob("Hi", FontId(56, "Proportional")),
             LayoutJob("??", FontId(56, "unbound"))}

LockCalls ==
    {<<"begin_frame", Args(NoJob, NoJob.font_id, args[1], args[2])>> :
        args \in LockBeginFrameArgs}
    \cup {<<"layout_job", Args(job, job.font_id, 0, 0)>> : job \in LockJobs}
    \cup {<<op, NoCall.args>> :
             op \in {"font_image_delta", "font_atlas_fill_ratio", "texture_atlas"}}

\* begin_frame: self.0.lock(); atlas.lock().fill_ratio(), whose guard is a
\* temporary of that statement; the rest of the body
begin_frame_statements ==
    <<"lock", "atlas.lock", "atlas.drop", "body", "drop">>

\* layout_job: self.lock(), then GalleyCache::layout, in which the glyphs of
\* a job that is laid out are allocated with the guard of the atlas
layout_job_statements ==
    <<"lock", "atlas.lock", "atlas.drop", "body", "drop">>

\* A font_image_delta that locks the atlas before the FontPaintManager.
font_image_delta_atlas_first ==
    <<"atlas.lock", "lock", "atlas.drop", "body", "drop">>

\* font_image_delta: self.lock().font_manager.atlas.lock().take_delta();
\* the temporaries are dropped in the reverse order
font_image_delta_statements ==
    <<"lock", "atlas.lock", "atlas.drop", "body", "drop">>

\* font_atlas_fill_ratio: self.lock().font_manager.atlas.lock().fill_ratio()
font_atlas_fill_ratio_statements ==
    <<"lock", "atlas.lock", "atlas.drop", "body", "drop">>

\* texture_atlas: self.lock().font_manager.atlas.clone(); the caller then
\* locks the Arc<Mutex<TextureAtlas>> it got
texture_atlas_statements ==
    <<"lock", "body", "drop", "handle.lock", "handle.drop">>

statements(op) ==
    CASE op = "begin_frame" -> begin_frame_statements
      [] op = "layout_job" -> layout_job_statements
      [] op = "font_image_delta" -> font_image_delta_statements
      [] op = "font_atlas_fill_ratio" -> font_atlas_fill_ratio_statements
      [] OTHER -> texture_atlas_statements

\* GalleyCache::layout reaches the atlas: the hash is not cached and
\* FontsManager::font does not panic, the chain being there or the FontType
\* having a sequence of registered names
layout_job_rasterizes(job) ==
    /\ hash(job) \notin DOMAIN galley_cache.cache
    /\ \/ font_impl_manager_key(font_manager, job.font_id)
             \in DOMAIN font_manager.font_impl_manager_map
       \/ /\ job.font_id.font_type \in DOMAIN font_manager.definitions.type_fonts
          /\ \A name \in Range(font_manager.definitions.type_fonts[job.font_id.font_type]) :
                name \in DOMAIN font_manager.fonts_impl_cache.ab_glyph_fonts

\* the statement thread t is at
At(t, statement) ==
    /\ locks.calls[t].rest # <<>>
    /\ Head(locks.calls[t].rest) = statement

\* the guards thread t holds on atlases
AtlasGuards(t) == {g \in locks.atlas : g[2] = t}

\* atlas `a` is locked
AtlasLocked(a) == \E g \in locks.atlas : g[1] = a

\* thread t calls an operation
CallStarts(t, call) ==
    /\ locks.calls[t].rest = <<>>
    /\ locks.started < MaxCalls
    /\ locks' = [locks EXCEPT
                    !.started = @ + 1,
                    !.calls[t] = [op |-> call[1], args |-> call[2],
                                  rest |-> statements(call[1]), handle |-> 0]]
    /\ UNCHANGED program_state

\* self.0.lock(): the call goes on once no thread holds the guard.  A
\* layout_job that does not reach the atlas has only its body left.
LockOuter(t) ==
    /\ At(t, "lock")
    /\ locks.outer = NoThread
    /\ locks' = [locks EXCEPT
                    !.outer = t,
                    !.calls[t].rest =
                        IF /\ locks.calls[t].op = "layout_job"
                           /\ ~layout_job_rasterizes(locks.calls[t].args.job)
                        THEN <<"body", "drop">> ELSE Tail(@)]
    /\ UNCHANGED program_state

\* font_manager.atlas.lock()
LockAtlas(t) ==
    /\ At(t, "atlas.lock")
    /\ ~AtlasLocked(locks.serial)
    /\ locks' = [locks EXCEPT
                    !.atlas = @ \cup {<<locks.serial, t>>},
                    !.calls[t].rest = Tail(@)]
    /\ UNCHANGED program_state

\* the guard of the atlas is dropped
DropAtlas(t) ==
    /\ At(t, "atlas.drop")
    /\ locks' = [locks EXCEPT
                    !.atlas = @ \ AtlasGuards(t),
                    !.calls[t].rest = Tail(@)]
    /\ UNCHANGED program_state

\* the body of the call of thread t
Body(t) ==
    CASE locks.calls[t].op = "begin_frame" ->
            BeginFrameLocked(locks.calls[t].args.pixels_per_point,
                             locks.calls[t].args.max_texture_side)
      [] locks.calls[t].op = "layout_job" ->
            /\ \E fill \in FillLevels : LayoutJobLocked(locks.calls[t].args.job, fill)
            /\ UNCHANGED mutex
      [] OTHER -> UNCHANGED program_state

\* The call of thread t has run its body: it is at the end of the function
\* or unwinding.  texture_atlas has cloned the Arc of the atlas that the
\* FontsManager holds.
BodyEnds(t) ==
    /\ At(t, "body")
    /\ locks.outer = t
    /\ locks' = [locks EXCEPT
                    !.calls[t].rest = Tail(@),
                    !.calls[t].handle =
                        IF locks.calls[t].op = "texture_atlas" THEN locks.serial ELSE @]

\* the body of the call runs, with the guard of "lock" held
RunsBody(t) ==
    /\ BodyEnds(t)
    /\ Body(t)

\* The guard of the FontPaintManager is dropped, by the return or by the
\* panic.  A begin_frame that recreated the state has made a new atlas.
DropOuter(t) ==
    /\ At(t, "drop")
    /\ locks.outer = t
    /\ locks' = [locks EXCEPT
                    !.outer = NoThread,
                    !.serial = IF /\ locks.calls[t].op = "begin_frame"
                                  /\ lastOp.op = "begin_frame"
                                  /\ lastOp.recreate /\ ~lastOp.panic
                               THEN @ + 1 ELSE @,
                    !.calls[t].rest = Tail(@)]
    /\ UNCHANGED program_state

\* the thread locks the atlas it got from texture_atlas()
LockHandle(t) ==
    /\ At(t, "handle.lock")
    /\ ~AtlasLocked(locks.calls[t].handle)
    /\ locks' = [locks EXCEPT
                    !.atlas = @ \cup {<<locks.calls[t].handle, t>>},
                    !.calls[t].rest = Tail(@)]
    /\ UNCHANGED program_state

\* and drops the guard and the Arc
DropHandle(t) ==
    /\ At(t, "handle.drop")
    /\ locks' = [locks EXCEPT
                    !.atlas = @ \ AtlasGuards(t),
                    !.calls[t].rest = Tail(@),
                    !.calls[t].handle = 0]
    /\ UNCHANGED program_state

\* a step of thread t that takes or drops a guard
TakesOrDrops(t) ==
    \/ LockOuter(t) \/ LockAtlas(t) \/ DropAtlas(t) \/ DropOuter(t)
    \/ LockHandle(t) \/ DropHandle(t)

NextLocks ==
    \/ \E t \in Threads, call \in LockCalls : CallStarts(t, call)
    \/ \E t \in Threads : LockOuter(t)
    \/ \E t \in Threads : LockAtlas(t)
    \/ \E t \in Threads : DropAtlas(t)
    \/ \E t \in Threads : RunsBody(t)
    \/ \E t \in Threads : DropOuter(t)
    \/ \E t \in Threads : LockHandle(t)
    \/ \E t \in Threads : DropHandle(t)

\* The program called from several threads, with its guards.  The scheduler
\* runs every thread that does not wait for a Mutex, and a Mutex that stays
\* unlocked is given to a thread that waits for it: a thread that can take
\* or drop a guard does so.  A body that runs comes to its end, by a return
\* or a panic: it waits for nothing but the atlas, whose guard is taken in
\* a step of its own.
SpecLocks ==
    /\ Init /\ [][NextLocks]_vars
    /\ \A t \in Threads : WF_vars(TakesOrDrops(t)) /\ WF_locks(BodyEnds(t))

\* ------------------------------------------------------------------------
\* Properties

\* the call the step made returned
Returned(op) == lastOp'.op = op /\ ~lastOp'.panic

\* the hashes of the jobs a layout_job call of the current frame returned for
Accessed == {hash(job) : job \in {j \in Jobs : frame.first[j] # 0}}

\* the number of layout computations the current frame ran for hash h
RECURSIVE ComputedIn(_, _)
ComputedIn(computed, jobs) ==
    IF jobs = {} THEN 0
    ELSE LET job == CHOOSE j \in jobs : TRUE
         IN  computed[job] + ComputedIn(computed, jobs \ {job})

ComputedFor(computed, h) == ComputedIn(computed, {j \in Jobs : hash(j) = h})

\* C1, as the spec states it: a layout_job call that returns for a job that
\* an earlier call of the same frame returned for gives the object of that
\* earlier call, and the frame has then run the layout of the job exactly once.
C1_Original ==
    [][Returned("layout_job") /\ lastOp'.again
          /\ galley_cache'.cache[hash(lastOp'.args.job)].galley.job = lastOp'.args.job
       => /\ lastOp'.ret = frame.first[lastOp'.args.job]
          /\ frame'.computed[lastOp'.args.job] = 1]_vars

\* C1, amended: a layout_job call that returns for a job that an earlier
\* call of the same frame returned for is a hit that gives the object the
\* earlier call gave and runs no layout; the frame has run the layout for
\* the hash of the job once if the hash was not cached when the frame began
\* and not at all if it was.
C1_SameFrameSameGalley ==
    [][Returned("layout_job") /\ lastOp'.again
       => /\ lastOp'.hit
          /\ lastOp'.ret = frame.first[lastOp'.args.job]
          /\ frame'.computed = frame.computed
          /\ ComputedFor(frame'.computed, hash(lastOp'.args.job))
                = IF hash(lastOp'.args.job) \in after_begin THEN 0 ELSE 1]_vars

\* a second call in a frame, for a job the frame laid out itself
C1_Witness ==
    /\ lastOp.op = "layout_job" /\ ~lastOp.panic /\ lastOp.again /\ lastOp.hit
    /\ frame.computed[lastOp.args.job] = 1
    /\ lastOp.ret = frame.first[lastOp.args.job]

\* C2: every Galley in the GalleyCache was laid out against the atlas the
\* FontsManager holds now, and so was the Galley a layout_job call returned.
C2_GalleysOfCurrentAtlas ==
    /\ \A h \in DOMAIN galley_cache.cache :
          galley_cache.cache[h].galley.atlas = font_manager.atlas.id
    /\ lastOp.op = "layout_job" /\ ~lastOp.panic
       => /\ hash(lastOp.args.job) \in DOMAIN galley_cache.cache
          /\ galley_cache.cache[hash(lastOp.args.job)].galley.id = lastOp.ret
          /\ galley_cache.cache[hash(lastOp.args.job)].galley.atlas
                = font_manager.atlas.id

\* a cached Galley returned after begin_frame replaced the atlas
C2_Witness ==
    /\ lastOp.op = "layout_job" /\ lastOp.hit
    /\ font_manager.atlas.id = 2
    /\ prev_used # {}

\* C3: a begin_frame whose pixels_per_point is valid and differs from the
\* stored one by more than 1e-3 returns with the GalleyCache, the
\* FontsImplCache and font_impl_manager_map empty and that value stored.
C3_RatioChangeDiscardsAll ==
    [][/\ lastOp'.op = "begin_frame"
       /\ ValidPixelsPerPoint(lastOp'.args.pixels_per_point)
       /\ Abs(font_manager.pixels_per_point - lastOp'.args.pixels_per_point) * 1000
             > PppUnit
       => /\ ~lastOp'.panic
          /\ galley_cache'.cache = EmptyMap
          /\ font_manager'.fonts_impl_cache.cache = EmptyMap
          /\ font_manager'.font_impl_manager_map = EmptyMap
          /\ font_manager'.pixels_per_point = lastOp'.args.pixels_per_point
          /\ font_manager'.fonts_impl_cache.pixels_per_point
                = lastOp'.args.pixels_per_point]_vars

\* a begin_frame with a ratio 3/2048 above the stored one dropped Galleys
C3_Witness ==
    /\ lastOp.op = "begin_frame" /\ ~lastOp.panic /\ lastOp.recreate
    /\ lastOp.args.pixels_per_point = PppUnit + 3
    /\ ops = 2
    /\ font_manager.pixels_per_point = PppUnit + 3
    /\ evicted # {}
    /\ galley_cache.cache = EmptyMap

\* C4: a begin_frame that passes the pixels_per_point and max_texture_side
\* of the begin_frame before it, with the atlas filled above 0.8 since,
\* recreates the state: a new atlas, and the FontsImplCache,
\* font_impl_manager_map and GalleyCache empty.
C4_FillAboveThresholdRebuilds ==
    [][/\ lastOp'.op = "begin_frame"
       /\ <<lastOp'.args.pixels_per_point, lastOp'.args.max_texture_side>> = begun
       /\ font_manager.atlas.fill * 10 > 8 * FillUnit
       => /\ ~lastOp'.panic
          /\ font_manager'.atlas.id # font_manager.atlas.id
          /\ font_manager'.atlas.fill = 0
          /\ font_manager'.fonts_impl_cache.atlas = font_manager'.atlas.id
          /\ font_manager'.fonts_impl_cache.cache = EmptyMap
          /\ font_manager'.font_impl_manager_map = EmptyMap
          /\ galley_cache'.cache = EmptyMap]_vars

\* two begin_frame calls with the arguments of the construction, a layout
\* that filled the atlas above 0.8 between them, and the second one rebuilt
C4_Witness ==
    /\ lastOp.op = "begin_frame" /\ ~lastOp.panic /\ lastOp.recreate /\ lastOp.again
    /\ begun = <<PppUnit, 1024>>
    /\ font_manager.atlas.id = 2
    /\ font_manager.atlas.fill = 0
    /\ evicted # {}

\* C5: a begin_frame that does not recreate the state keeps exactly the
\* entries stamped with the generation it found, unchanged, and advances
\* the generation by one; the entries kept are those of the jobs a
\* layout_job call of the frame that ends returned for.
C5_FlushRetainsCurrentGeneration ==
    [][Returned("begin_frame") /\ ~lastOp'.recreate
       => /\ DOMAIN galley_cache'.cache
                = {h \in DOMAIN galley_cache.cache :
                      galley_cache.cache[h].last_used = galley_cache.generation}
          /\ \A h \in DOMAIN galley_cache'.cache :
                galley_cache'.cache[h] = galley_cache.cache[h]
          /\ galley_cache'.generation = wrapping_add_1(galley_cache.generation)
          /\ DOMAIN galley_cache'.cache = Accessed]_vars

\* a begin_frame that removed the entry of a job the frame did not ask for
C5_Witness ==
    /\ lastOp.op = "begin_frame" /\ ~lastOp.panic /\ ~lastOp.recreate
    /\ evicted # {}
    /\ galley_cache.generation = U32(0, 2)

\* C6, as the spec states it: once the begin_frame that starts frame N+1 has
\* run and frame N+1 has passed without a layout_job for the hash, an entry
\* used in frame N is absent.
C6_Original ==
    [][lastOp'.op = "begin_frame"
       => \A h \in prev_used \ frame.used : h \notin DOMAIN galley_cache.cache]_vars

\* C6, amended: the hashes passed to layout_job in frame N and not in frame
\* N+1 have no entry after the begin_frame that ends frame N+1.
C6_UnusedForOneFrameIsEvicted ==
    [][Returned("begin_frame")
       => \A h \in prev_used \ frame.used : h \notin DOMAIN galley_cache'.cache]_vars

\* a begin_frame without rebuild removed entries the frame it ended had not used
C6_Witness ==
    /\ lastOp.op = "begin_frame" /\ ~lastOp.panic /\ ~lastOp.recreate
    /\ evicted # {}
    /\ evicted \cap prev_used = {}
    /\ after_begin = {}

\* C7, as the spec states it: the entry of a job that layout_job returned
\* for in the frame that ends is present after begin_frame with the same
\* Galley.
C7_Original ==
    [][Returned("begin_frame")
       => \A h \in Accessed :
             /\ h \in DOMAIN galley_cache'.cache
             /\ galley_cache'.cache[h].galley = galley_cache.cache[h].galley]_vars

\* C7, amended: a begin_frame that does not recreate the state keeps, with
\* the same Galley, the entry of every job layout_job returned for in the
\* frame that ends; and a layout_job call that finds an entry returns its
\* Galley and leaves it in place.
C7_UsedEveryFrameSurvives ==
    [][/\ Returned("begin_frame") /\ ~lastOp'.recreate
          => \A h \in Accessed :
                /\ h \in DOMAIN galley_cache'.cache
                /\ galley_cache'.cache[h].galley = galley_cache.cache[h].galley
       /\ Returned("layout_job")
          => \A h \in DOMAIN galley_cache.cache :
                /\ h \in DOMAIN galley_cache'.cache
                /\ galley_cache'.cache[h].galley = galley_cache.cache[h].galley
                /\ h = hash(lastOp'.args.job)
                   => lastOp'.ret = galley_cache.cache[h].galley.id]_vars

\* a job of the previous frame, kept by begin_frame and found by the first
\* layout_job call for it in this frame
C7_Witness ==
    /\ lastOp.op = "layout_job" /\ lastOp.hit /\ ~lastOp.again
    /\ hash(lastOp.args.job) \in prev_used \cap after_begin
    /\ ~lastOp.recreate
    /\ font_manager.atlas.id = 1

\* C8: at generation u32::MAX a begin_frame that does not recreate the state
\* returns with the generation 0 and keeps exactly the entries stamped
\* u32::MAX; the begin_frame after it keeps exactly the entries stamped 0,
\* so an entry stamped u32::MAX and not found again is gone after it.
C8_GenerationWraps ==
    [][lastOp'.op = "begin_frame" /\ ~lastOp'.recreate
       => /\ ~lastOp'.panic
          /\ galley_cache.generation = U32Max
             => /\ galley_cache'.generation = U32Zero
                /\ \A h \in DOMAIN galley_cache.cache :
                      h \in DOMAIN galley_cache'.cache
                         <=> galley_cache.cache[h].last_used = U32Max
          /\ galley_cache.generation = U32Zero
             => /\ galley_cache'.generation = U32(0, 1)
                /\ \A h \in DOMAIN galley_cache.cache :
                      /\ h \in DOMAIN galley_cache'.cache
                            <=> galley_cache.cache[h].last_used = U32Zero
                      /\ galley_cache.cache[h].last_used = U32Max
                            => h \notin DOMAIN galley_cache'.cache]_vars

\* the begin_frame after the one that wrapped the generation removed an entry
C8_Witness ==
    /\ lastOp.op = "begin_frame" /\ ~lastOp.panic /\ ~lastOp.recreate
    /\ galley_cache.generation = U32(0, 1)
    /\ evicted # {}
    /\ prev_used = {}

\* C9: a call of font with a FontId that a call since the last
\* (re)construction returned for does not panic, constructs no FontImpl and
\* leaves the FontsManager as it was, the chain of the FontId's key in
\* font_impl_manager_map.
C9_FontMemoized ==
    [][/\ lastOp'.op = "font" /\ lastOp'.args.font_id \in resolved
          => /\ ~lastOp'.panic
             /\ lastOp'.constructed = 0
             /\ constructed' = constructed
             /\ font_manager' = font_manager
             /\ font_impl_manager_key(font_manager, lastOp'.args.font_id)
                   \in DOMAIN font_manager.font_impl_manager_map
       /\ lastOp'.op = "layout_job" /\ lastOp'.args.font_id \in resolved
          => /\ ~lastOp'.panic
             /\ constructed' = constructed
             /\ font_manager'.fonts_impl_cache = font_manager.fonts_impl_cache
             /\ font_manager'.font_impl_manager_map
                   = font_manager.font_impl_manager_map]_vars

\* a second call of font for a FontId whose chain has FontImpls
C9_Witness ==
    /\ lastOp.op = "font" /\ ~lastOp.panic /\ lastOp.again
    /\ lastOp.constructed = 0
    /\ constructed > 0
    /\ font_impl_manager_key(font_manager, lastOp.args.font_id)
          \in DOMAIN font_manager.font_impl_manager_map

\* what C10 says of one FontsManager: every FontImpl constructed is in the
\* FontsImplCache, under the key (round(scale_in_pixels * tweak.scale), name)
\* it was made for; no two keys hold the same object; every member of a
\* chain is the object the FontsImplCache holds for its key.
FontImplsByKey(fonts) ==
    LET cache == fonts.fonts_impl_cache.cache
    IN  /\ \A k \in DOMAIN cache :
              /\ cache[k].scale_in_pixels = k[1]
              /\ cache[k].name = k[2]
              /\ cache[k].font = fonts.definitions.font_data_map[k[2]].font
        /\ \A k1, k2 \in DOMAIN cache : k1 # k2 => cache[k1].id # cache[k2].id
        /\ \A key \in DOMAIN fonts.font_impl_manager_map :
              \A i \in 1..Len(fonts.font_impl_manager_map[key]) :
                 LET name == fonts.definitions.type_fonts[key[2]][i]
                     px == RoundDiv(key[1] * fonts.definitions.font_data_map[name].tweak.scale,
                                    TweakUnit)
                 IN  /\ <<px, name>> \in DOMAIN cache
                     /\ fonts.font_impl_manager_map[key][i] = cache[<<px, name>>]

\* C10: between rebuilds the number of FontImpls constructed is the number
\* of keys (round(scale_in_pixels * tweak.scale), name) in the
\* FontsImplCache, an entry once made stays the same object, chains hold the
\* cached objects, and different names have different objects.
C10_OneFontImplPerKey ==
    [][/\ FontImplsByKey(font_manager')
       /\ constructed' = Cardinality(DOMAIN font_manager'.fonts_impl_cache.cache)
       /\ ~(lastOp'.op = "begin_frame" /\ lastOp'.recreate)
          => \A k \in DOMAIN font_manager.fonts_impl_cache.cache :
                /\ k \in DOMAIN font_manager'.fonts_impl_cache.cache
                /\ font_manager'.fonts_impl_cache.cache[k]
                      = font_manager.fonts_impl_cache.cache[k]]_vars

\* Hack and my_font, registered with the same bytes, both cached at 14 px,
\* Hack asked for twice by its chain; and the emoji font at 11 px shared by
\* the Proportional chains of 14 px and 15 px
C10_Witness ==
    LET cache == font_manager.fonts_impl_cache.cache
        chains == font_manager.font_impl_manager_map
    IN  /\ <<14, "Hack">> \in DOMAIN cache
        /\ <<14, "my_font">> \in DOMAIN cache
        /\ cache[<<14, "Hack">>].font = cache[<<14, "my_font">>].font
        /\ cache[<<14, "Hack">>].id # cache[<<14, "my_font">>].id
        /\ <<14, "Monospace">> \in DOMAIN chains
        /\ chains[<<14, "Monospace">>][1] = chains[<<14, "Monospace">>][3]
        /\ <<14, "Proportional">> \in DOMAIN chains
        /\ <<15, "Proportional">> \in DOMAIN chains
        /\ chains[<<14, "Proportional">>][2] = chains[<<15, "Proportional">>][2]
        /\ chains[<<14, "Proportional">>][2].scale_in_pixels = 11
        /\ constructed = 5

\* a step of SpecThreads that is a whole layout_job call
LayoutJobStep == ops' # ops /\ mutex'.holder = mutex.holder

\* a step of SpecThreads in which begin_frame ends and its guard is dropped
BeginFrameEnds == mutex.holder # NoThread /\ mutex'.holder = NoThread

\* C11, as the spec states it: when a layout_job call returns for a job that
\* a call of the other thread returned for in the same frame, both got the
\* same object and the frame has run the layout of the job exactly once.
C11_Original ==
    [][/\ LayoutJobStep /\ ~lastOp'.panic
       /\ mutex'.callers[lastOp'.args.job] = Threads
       /\ galley_cache'.cache[hash(lastOp'.args.job)].galley.job = lastOp'.args.job
       => /\ lastOp'.ret = frame.first[lastOp'.args.job]
          /\ frame'.computed[lastOp'.args.job] = 1]_vars

\* C11, amended: the calls of the threads take effect one at a time, in the
\* order in which they get the lock.  A layout_job runs only while no
\* begin_frame is under way, on a state whose cached Galleys are all of the
\* current atlas; a begin_frame ends in the state that the whole begin_frame
\* makes of the state it found when it took the lock; and when layout_job
\* returns for a job that a call of the other thread returned for in the
\* same frame, it is a hit that gives the same object and runs no layout,
\* the frame having run the layout for the hash once if the hash was not
\* cached when the frame began and not at all if it was.
C11_CallsSerialize ==
    [][/\ LayoutJobStep
          => /\ mutex.holder = NoThread
             /\ \A h \in DOMAIN galley_cache.cache :
                   galley_cache.cache[h].galley.atlas = font_manager.atlas.id
             /\ ~lastOp'.panic /\ mutex.callers[lastOp'.args.job] # {}
                => /\ lastOp'.hit
                   /\ lastOp'.ret = frame.first[lastOp'.args.job]
                   /\ frame'.computed = frame.computed
                   /\ ComputedFor(frame'.computed, hash(lastOp'.args.job))
                         = IF hash(lastOp'.args.job) \in after_begin THEN 0 ELSE 1
       /\ BeginFrameEnds
          => /\ lastOp'.op = "begin_frame"
             /\ lastOp'.panic
                   = begin_frame(mutex.at_lock.fonts, mutex.at_lock.galley_cache,
                                 [atlas |-> font_manager'.atlas.id],
                                 mutex.args[1], mutex.args[2]).panic
             /\ font_manager'
                   = begin_frame(mutex.at_lock.fonts, mutex.at_lock.galley_cache,
                                 [atlas |-> font_manager'.atlas.id],
                                 mutex.args[1], mutex.args[2]).fonts
             /\ galley_cache'
                   = begin_frame(mutex.at_lock.fonts, mutex.at_lock.galley_cache,
                                 [atlas |-> font_manager'.atlas.id],
                                 mutex.args[1], mutex.args[2]).galley_cache]_vars

\* both threads got the Galley of a job in one frame, after a begin_frame
\* of one of them had rebuilt the state, and the frame laid the job out once
C11_Witness ==
    /\ lastOp.op = "layout_job" /\ ~lastOp.panic /\ lastOp.hit
    /\ mutex.callers[lastOp.args.job] = Threads
    /\ frame.computed[lastOp.args.job] = 1
    /\ lastOp.ret = frame.first[lastOp.args.job]
    /\ font_manager.atlas.id = 2
    /\ mutex.holder = NoThread

\* C12: the stored pixels_per_point is above 0 and below 100 in every
\* state; a begin_frame that has to recreate the state with a value outside
\* that range panics and leaves the state as it was, and one that recreates
\* it stores the value passed.
C12_PixelsPerPointInRange ==
    [][/\ 0 < font_manager.pixels_per_point
       /\ font_manager.pixels_per_point < 100 * PppUnit
       /\ 0 < font_manager'.pixels_per_point
       /\ font_manager'.pixels_per_point < 100 * PppUnit
       /\ font_manager'.fonts_impl_cache.pixels_per_point = font_manager'.pixels_per_point
       /\ lastOp'.op = "begin_frame" /\ lastOp'.recreate
          => IF 0 < lastOp'.args.pixels_per_point
                /\ lastOp'.args.pixels_per_point < 100 * PppUnit
             THEN /\ ~lastOp'.panic
                  /\ font_manager'.pixels_per_point = lastOp'.args.pixels_per_point
             ELSE /\ lastOp'.panic
                  /\ font_manager' = font_manager
                  /\ galley_cache' = galley_cache]_vars

\* a begin_frame with 100.0 panicked and left a filled cache behind
C12_Witness ==
    /\ lastOp.op = "begin_frame" /\ lastOp.panic /\ lastOp.recreate
    /\ lastOp.args.pixels_per_point = 100 * PppUnit
    /\ galley_cache.cache # EmptyMap
    /\ font_manager.pixels_per_point = PppUnit + 3

\* the family of the FontId has no entry in type_fonts, or its sequence
\* names a font that is not registered
Unresolvable(fonts, font_id) ==
    \/ font_id.font_type \notin DOMAIN fonts.definitions.type_fonts
    \/ \E i \in 1..Len(fonts.definitions.type_fonts[font_id.font_type]) :
          \/ fonts.definitions.type_fonts[font_id.font_type][i]
                \notin DOMAIN fonts.definitions.font_data_map
          \/ fonts.definitions.type_fonts[font_id.font_type][i]
                \notin DOMAIN fonts.fonts_impl_cache.ab_glyph_fonts

\* the call of the step resolved the chain of its FontId: font, a
\* layout_job that missed, or ensure_correct_fonts_for_text
CallsFont ==
    \/ lastOp'.op \in {"font", "ensure_correct_fonts_for_text"}
    \/ lastOp'.op = "layout_job" /\ ~lastOp'.hit

\* C13: a call that resolves the chain of a FontId whose key is not in
\* font_impl_manager_map panics, and leaves no chain under the key, when the
\* family has no entry in type_fonts or names a font that is not registered.
C13_UnresolvableChainPanics ==
    [][/\ CallsFont
       /\ font_impl_manager_key(font_manager, lastOp'.args.font_id)
             \notin DOMAIN font_manager.font_impl_manager_map
       /\ Unresolvable(font_manager, lastOp'.args.font_id)
       => /\ lastOp'.panic
          /\ font_impl_manager_key(font_manager, lastOp'.args.font_id)
                \notin DOMAIN font_manager'.font_impl_manager_map
          /\ font_manager'.font_impl_manager_map = font_manager.font_impl_manager_map]_vars

\* the family "broken", whose second name is not registered, made font
\* panic after its first name had its FontImpl constructed
C13_Witness ==
    /\ lastOp.op = "font" /\ lastOp.panic
    /\ lastOp.args.font_id.font_type = "broken"
    /\ lastOp.constructed = 1
    /\ font_manager.font_impl_manager_map = EmptyMap

\* C14: a layout_job whose hash is in the GalleyCache returns the Galley
\* of the entry, whatever job it was laid out from, stamps the entry with
\* the generation, and changes nothing else: no layout is run, no FontImpl
\* constructed, no other entry touched.
C14_HitStampsAndReturns ==
    [][/\ lastOp'.op = "layout_job"
       /\ hash(lastOp'.args.job) \in DOMAIN galley_cache.cache
       => /\ ~lastOp'.panic /\ lastOp'.hit
          /\ lastOp'.ret = galley_cache.cache[hash(lastOp'.args.job)].galley.id
          /\ galley_cache'.generation = galley_cache.generation
          /\ DOMAIN galley_cache'.cache = DOMAIN galley_cache.cache
          /\ \A h \in DOMAIN galley_cache.cache :
                /\ galley_cache'.cache[h].galley = galley_cache.cache[h].galley
                /\ galley_cache'.cache[h].last_used
                      = IF h = hash(lastOp'.args.job) THEN galley_cache.generation
                        ELSE galley_cache.cache[h].last_used
          /\ frame'.computed = frame.computed
          /\ font_manager' = font_manager
          /\ constructed' = constructed]_vars

\* a job was given the Galley that the previous frame laid out from a
\* different job with the same hash, and the entry carries the generation
C14_Witness ==
    /\ lastOp.op = "layout_job" /\ lastOp.hit
    /\ galley_cache.cache[hash(lastOp.args.job)].galley.job # lastOp.args.job
    /\ galley_cache.cache[hash(lastOp.args.job)].galley.id = lastOp.ret
    /\ galley_cache.cache[hash(lastOp.args.job)].last_used = galley_cache.generation
    /\ galley_cache.generation = U32(0, 1)
    /\ frame.computed = FrameStart.computed

\* C15: ensure_correct_fonts_for_text leaves the GalleyCache as it was
\* (entries, Galleys, stamps, generation) and the atlas the same object; of
\* the FontsManager it changes at most the definitions, the FontsImplCache
\* and font_impl_manager_map.
C15_EnsureKeepsGalleyCache ==
    [][lastOp'.op = "ensure_correct_fonts_for_text"
       => /\ galley_cache' = galley_cache
          /\ font_manager'.atlas = font_manager.atlas
          /\ font_manager'.fonts_impl_cache.atlas = font_manager.fonts_impl_cache.atlas
          /\ font_manager'.pixels_per_point = font_manager.pixels_per_point
          /\ font_manager'.max_texture_side = font_manager.max_texture_side
          /\ \A h \in DOMAIN galley_cache'.cache :
                galley_cache'.cache[h].galley.atlas = font_manager'.atlas.id]_vars

\* a font file was registered and its FontImpl constructed while the
\* GalleyCache held a Galley
C15_Witness ==
    /\ lastOp.op = "ensure_correct_fonts_for_text" /\ ~lastOp.panic
    /\ lastOp.args.found # <<>>
    /\ "NotoSans.ttf" \in DOMAIN font_manager.definitions.font_data_map
    /\ <<14, "NotoSans.ttf">> \in DOMAIN font_manager.fonts_impl_cache.cache
    /\ galley_cache.cache # EmptyMap

\* C16: every FontImpl in the FontsImplCache or in a chain of
\* font_impl_manager_map holds the atlas that the FontsManager holds, and
\* so does the FontsImplCache that constructs them.
C16_FontImplsShareAtlas ==
    /\ font_manager.fonts_impl_cache.atlas = font_manager.atlas.id
    /\ \A k \in DOMAIN font_manager.fonts_impl_cache.cache :
          font_manager.fonts_impl_cache.cache[k].atlas = font_manager.atlas.id
    /\ \A key \in DOMAIN font_manager.font_impl_manager_map :
          \A i \in 1..Len(font_manager.font_impl_manager_map[key]) :
             font_manager.font_impl_manager_map[key][i].atlas = font_manager.atlas.id

\* after a rebuild, the FontImpl of a font file that
\* ensure_correct_fonts_for_text registered is in the cache and in a chain
C16_Witness ==
    /\ font_manager.atlas.id = 2
    /\ <<14, "NotoSans.ttf">> \in DOMAIN font_manager.fonts_impl_cache.cache
    /\ <<14, "Proportional">> \in DOMAIN font_manager.font_impl_manager_map
    /\ Len(font_manager.font_impl_manager_map[<<14, "Proportional">>]) = 3
    /\ font_manager.font_impl_manager_map[<<14, "Proportional">>][3].name = "NotoSans.ttf"
    /\ font_manager.font_impl_manager_map[<<14, "Proportional">>][3].atlas = 2

\* C17: the atlas becomes another object only in a begin_frame that
\* recreates the state; a begin_frame whose pixels_per_point is within 1e-3
\* of the stored one and whose max_texture_side is the stored one, with the
\* atlas filled to at most 0.8, returns with the FontsManager as it was
\* (atlas, FontsImplCache, font_impl_manager_map, pixels_per_point,
\* max_texture_side) and the GalleyCache flushed.
C17_AtlasReplacedOnlyByTrigger ==
    [][/\ font_manager'.atlas.id # font_manager.atlas.id
          => lastOp'.op = "begin_frame" /\ lastOp'.recreate /\ ~lastOp'.panic
       /\ /\ lastOp'.op = "begin_frame"
          /\ Abs(font_manager.pixels_per_point - lastOp'.args.pixels_per_point) * 1000
                <= PppUnit
          /\ lastOp'.args.max_texture_side = font_manager.max_texture_side
          /\ font_manager.atlas.fill * 10 <= 8 * FillUnit
          => /\ ~lastOp'.panic /\ ~lastOp'.recreate
             /\ font_manager' = font_manager
             /\ galley_cache'.generation = wrapping_add_1(galley_cache.generation)
             /\ \A h \in DOMAIN galley_cache'.cache :
                   /\ h \in DOMAIN galley_cache.cache
                   /\ galley_cache'.cache[h] = galley_cache.cache[h]]_vars

\* a begin_frame with 1.0 + 2/2048 at a stored 1.0, the atlas filled to 0.8,
\* left the chains in place
C17_Witness ==
    /\ lastOp.op = "begin_frame" /\ ~lastOp.panic /\ ~lastOp.recreate
    /\ lastOp.args.pixels_per_point = PppUnit + 2
    /\ font_manager.pixels_per_point = PppUnit
    /\ font_manager.atlas.fill = 8
    /\ font_manager.atlas.id = 1
    /\ font_manager.font_impl_manager_map # EmptyMap
    /\ after_begin # {}

\* C18, as the spec states it: after a begin_frame that does not recreate
\* the state the cached hashes are the hashes passed to layout_job since the
\* begin_frame before it; after one that recreates the state, and after one
\* that follows a begin_frame with no layout_job in between, there is none.
C18_Original ==
    [][Returned("begin_frame")
       => /\ ~lastOp'.recreate => DOMAIN galley_cache'.cache = frame.used
          /\ lastOp'.recreate => galley_cache'.cache = EmptyMap
          /\ frame.used = {} => galley_cache'.cache = EmptyMap]_vars

\* C18, amended: after a begin_frame that does not recreate the state the
\* cached hashes are the hashes of the jobs that a layout_job call returned
\* for since the begin_frame before it (a call that panicked left no
\* entry); after one that recreates the state, and after one that follows
\* a begin_frame with no layout_job in between, there is none.
C18_CacheAfterBeginFrame ==
    [][Returned("begin_frame")
       => /\ ~lastOp'.recreate
             => /\ DOMAIN galley_cache'.cache = Accessed
                /\ DOMAIN galley_cache'.cache \subseteq frame.used
          /\ lastOp'.recreate => galley_cache'.cache = EmptyMap
          /\ frame.used = {} => galley_cache'.cache = EmptyMap]_vars

\* a begin_frame that kept the entries of its frame, which held a call that
\* returned and a call that panicked
C18_Witness ==
    /\ lastOp.op = "begin_frame" /\ ~lastOp.panic /\ ~lastOp.recreate
    /\ DOMAIN galley_cache.cache = after_begin
    /\ after_begin # {}
    /\ after_begin # prev_used
    /\ after_begin \subseteq prev_used

\* C19, as the spec states it: a begin_frame that returns leaves the
\* generation of the GalleyCache one greater (mod 2^32) than it was,
\* recreating or not, and no other call changes it.
C19_Original ==
    [][IF Returned("begin_frame")
       THEN galley_cache'.generation = wrapping_add_1(galley_cache.generation)
       ELSE galley_cache'.generation = galley_cache.generation]_vars

\* C19, amended: a begin_frame that returns without recreating the state
\* leaves the generation one greater (mod 2^32) than it was; one that
\* recreates the state leaves it at 1, the GalleyCache being a new one
\* flushed once; a begin_frame that panics and every other call leave it
\* as it was.
C19_GenerationAdvances ==
    [][IF Returned("begin_frame")
       THEN IF lastOp'.recreate
            THEN galley_cache'.generation = U32(0, 1)
            ELSE \/ /\ galley_cache.generation # U32Max
                    /\ galley_cache'.generation
                          = U32(IF galley_cache.generation.lo = 65535
                                THEN galley_cache.generation.hi + 1
                                ELSE galley_cache.generation.hi,
                                (galley_cache.generation.lo + 1) % 65536)
                 \/ /\ galley_cache.generation = U32Max
                    /\ galley_cache'.generation = U32Zero
       ELSE galley_cache'.generation = galley_cache.generation]_vars

\* a begin_frame with the arguments of an earlier begin_frame, so at a
\* generation of 1 or more, that recreated the state as the atlas was filled
\* to more than 0.8
C19_Witness ==
    /\ lastOp.op = "begin_frame" /\ ~lastOp.panic /\ lastOp.recreate
    /\ lastOp.again
    /\ galley_cache.generation = U32(0, 1)
    /\ font_manager.atlas.id = 2
    /\ prev_used # {}

\* C20: a begin_frame leaves FontsManager::definitions as it was, the font
\* files and families that ensure_correct_fonts_for_text registered
\* included; after one that recreated the state the fonts of the new
\* FontsImplCache are those of definitions.font_data_map, name by name.
C20_BeginFrameKeepsDefinitions ==
    [][lastOp'.op = "begin_frame"
       => /\ font_manager'.definitions = font_manager.definitions
          /\ lastOp'.recreate /\ ~lastOp'.panic
             => /\ DOMAIN font_manager'.fonts_impl_cache.ab_glyph_fonts
                      = DOMAIN font_manager.definitions.font_data_map
                /\ \A name \in DOMAIN font_manager.definitions.font_data_map :
                      /\ font_manager'.fonts_impl_cache.ab_glyph_fonts[name].font
                            = font_manager.definitions.font_data_map[name].font
                      /\ font_manager'.fonts_impl_cache.ab_glyph_fonts[name].tweak
                            = font_manager.definitions.font_data_map[name].tweak
                /\ font_manager'.fonts_impl_cache.cache = EmptyMap]_vars

\* a begin_frame that recreated the state after
\* ensure_correct_fonts_for_text had registered a font file
C20_Witness ==
    /\ lastOp.op = "begin_frame" /\ ~lastOp.panic /\ lastOp.recreate
    /\ "NotoSans.ttf" \in DOMAIN font_manager.definitions.font_data_map
    /\ "NotoSans.ttf" \in Range(font_manager.definitions.type_fonts["Proportional"])
    /\ "NotoSans.ttf" \in Range(font_manager.definitions.type_fonts["Monospace"])
    /\ "NotoSans.ttf" \in DOMAIN font_manager.fonts_impl_cache.ab_glyph_fonts
    /\ font_manager.font_impl_manager_map = EmptyMap

\* a step in which a layout_job, font or ensure_correct_fonts_for_text call
\* panicked
CallPanics ==
    /\ lastOp'.op \in {"layout_job", "font", "ensure_correct_fonts_for_text"}
    /\ lastOp'.panic

\* C21, as the spec states it: a layout_job, font or
\* ensure_correct_fonts_for_text call that panics leaves the GalleyCache,
\* font_impl_manager_map and the cache of the FontsImplCache with the
\* entries they had.
C21_Original ==
    [][CallPanics
       => /\ galley_cache' = galley_cache
          /\ font_manager'.font_impl_manager_map = font_manager.font_impl_manager_map
          /\ font_manager'.fonts_impl_cache.cache
                = font_manager.fonts_impl_cache.cache]_vars

\* C21, amended: a layout_job, font or ensure_correct_fonts_for_text call
\* that panics leaves the GalleyCache and font_impl_manager_map as they
\* were; the cache of the FontsImplCache keeps its entries and is as it was
\* when the FontType has no sequence, and otherwise gains at most the
\* FontImpls of the names that precede the first unregistered name of the
\* sequence.
C21_PanicIsNotCached ==
    [][CallPanics
       => /\ galley_cache' = galley_cache
          /\ font_manager'.font_impl_manager_map = font_manager.font_impl_manager_map
          /\ font_manager'.definitions = font_manager.definitions
          /\ \A k \in DOMAIN font_manager.fonts_impl_cache.cache :
                /\ k \in DOMAIN font_manager'.fonts_impl_cache.cache
                /\ font_manager'.fonts_impl_cache.cache[k]
                      = font_manager.fonts_impl_cache.cache[k]
          /\ lastOp'.args.font_id.font_type
                \notin DOMAIN font_manager.definitions.type_fonts
             => font_manager'.fonts_impl_cache.cache
                   = font_manager.fonts_impl_cache.cache
          /\ \A k \in (DOMAIN font_manager'.fonts_impl_cache.cache)
                         \ (DOMAIN font_manager.fonts_impl_cache.cache) :
                \E i \in 1..Len(font_manager.definitions.type_fonts[
                                    lastOp'.args.font_id.font_type]) :
                   /\ font_manager.definitions.type_fonts[
                          lastOp'.args.font_id.font_type][i] = k[2]
                   /\ \A j \in 1..i :
                         font_manager.definitions.type_fonts[
                             lastOp'.args.font_id.font_type][j]
                            \in DOMAIN font_manager.fonts_impl_cache.ab_glyph_fonts]_vars

\* a font call for the FontType whose sequence names a registered and then
\* an unregistered font panicked and left the FontImpl of the registered
\* one in the cache, with no chain
C21_Witness ==
    /\ lastOp.op = "font" /\ lastOp.panic
    /\ lastOp.args.font_id = FontId(56, "broken")
    /\ lastOp.constructed = 1
    /\ <<14, "Ubuntu-Light">> \in DOMAIN font_manager.fonts_impl_cache.cache
    /\ <<14, "broken">> \notin DOMAIN font_manager.font_impl_manager_map
    /\ galley_cache.cache # EmptyMap

\* the keys of font_impl_manager_map that the step inserts
NewChains ==
    (DOMAIN font_manager'.font_impl_manager_map)
        \ (DOMAIN font_manager.font_impl_manager_map)

\* the number of font files the step's ensure_correct_fonts_for_text pushed
\* to the chain after it was built
PushedAfterBuild ==
    IF lastOp'.op = "ensure_correct_fonts_for_text"
    THEN Len(lastOp'.args.found) ELSE 0

\* C22: the chain a call inserts in font_impl_manager_map for a key
\* (scale_in_pixels, font_type) has, name by name in the order of
\* definitions.type_fonts[font_type] as it was when the call began, the
\* FontImpl the FontsImplCache holds for the name at the tweaked scale; it
\* has the length of the sequence; a name that occurs twice has the same
\* FontImpl object at both places.
C22_ChainFollowsNameSequence ==
    [][\A key \in NewChains :
          /\ lastOp'.op \in {"layout_job", "font", "ensure_correct_fonts_for_text"}
          /\ ~lastOp'.panic
          /\ key[2] \in DOMAIN font_manager.definitions.type_fonts
          /\ Len(font_manager'.font_impl_manager_map[key])
                = Len(font_manager.definitions.type_fonts[key[2]]) + PushedAfterBuild
          /\ \A i \in 1..Len(font_manager.definitions.type_fonts[key[2]]) :
                /\ font_manager'.font_impl_manager_map[key][i].name
                      = font_manager.definitions.type_fonts[key[2]][i]
                /\ font_manager'.font_impl_manager_map[key][i].scale_in_pixels
                      = RoundDiv(key[1] * font_manager.fonts_impl_cache.ab_glyph_fonts[
                                     font_manager.definitions.type_fonts[key[2]][i]
                                 ].tweak.scale, TweakUnit)
                /\ <<font_manager'.font_impl_manager_map[key][i].scale_in_pixels,
                     font_manager.definitions.type_fonts[key[2]][i]>>
                      \in DOMAIN font_manager'.fonts_impl_cache.cache
                /\ font_manager'.font_impl_manager_map[key][i]
                      = font_manager'.fonts_impl_cache.cache[
                            <<font_manager'.font_impl_manager_map[key][i].scale_in_pixels,
                              font_manager.definitions.type_fonts[key[2]][i]>>]
                /\ \A j \in 1..Len(font_manager.definitions.type_fonts[key[2]]) :
                      font_manager.definitions.type_fonts[key[2]][i]
                         = font_manager.definitions.type_fonts[key[2]][j]
                      => font_manager'.font_impl_manager_map[key][i].id
                            = font_manager'.font_impl_manager_map[key][j].id]_vars

\* a font call built the chain of "Monospace", whose sequence is "Hack",
\* "my_font", "Hack": three places, two FontImpl objects
C22_Witness ==
    /\ lastOp.op = "font" /\ ~lastOp.panic /\ ~lastOp.again
    /\ lastOp.args.font_id = FontId(56, "Monospace")
    /\ lastOp.constructed = 2
    /\ <<14, "Monospace">> \in DOMAIN font_manager.font_impl_manager_map
    /\ Len(font_manager.font_impl_manager_map[<<14, "Monospace">>]) = 3
    /\ font_manager.font_impl_manager_map[<<14, "Monospace">>][1].name = "Hack"
    /\ font_manager.font_impl_manager_map[<<14, "Monospace">>][2].name = "my_font"
    /\ font_manager.font_impl_manager_map[<<14, "Monospace">>][3]
          = font_manager.font_impl_manager_map[<<14, "Monospace">>][1]

\* C23: a thread that holds the guard of an atlas inside a call of
\* FontPaintManager holds the guard of the FontPaintManager, which it took
\* first, and no thread waits for the guard of the FontPaintManager with a
\* guard of an atlas held; every call of begin_frame, layout_job,
\* font_image_delta, font_atlas_fill_ratio and texture_atlas, and every
\* lock of an atlas got from texture_atlas, that began comes to its end, by
\* returning or by panicking.
C23_NoDeadlock ==
    /\ [](\A t \in Threads :
             /\ AtlasGuards(t) # {} /\ locks.calls[t].op # "texture_atlas"
                => locks.outer = t
             /\ At(t, "lock") => AtlasGuards(t) = {})
    /\ \A t \in Threads :
          (locks.calls[t].rest # <<>>) ~> (locks.calls[t].rest = <<>>)

\* a begin_frame that holds the guard of the FontPaintManager waits for the
\* atlas, which the other thread locked through the Arc it got from
\* texture_atlas
C23_Witness ==
    \E t, u \in Threads :
       /\ locks.outer = t
       /\ locks.calls[t].op = "begin_frame"
       /\ At(t, "atlas.lock")
       /\ locks.calls[u].op = "texture_atlas"
       /\ At(u, "handle.drop")
       /\ <<locks.serial, u>> \in locks.atlas

\* C24, as the spec states it: an ensure_correct_fonts_for_text call that
\* registers a font file leaves its name at the end of the "Monospace" and
\* the "Proportional" sequences of definitions.type_fonts and, with the
\* atlas and the other FontImpls kept, its FontImpl in every chain of
\* font_impl_manager_map whose FontType is "Monospace" or "Proportional".
C24_Original ==
    [][/\ lastOp'.op = "ensure_correct_fonts_for_text" /\ ~lastOp'.panic
       /\ lastOp'.args.found # <<>>
       => \A i \in 1..Len(lastOp'.args.found) :
             /\ \A font_type \in {"Monospace", "Proportional"} :
                   /\ font_type \in DOMAIN font_manager'.definitions.type_fonts
                   /\ lastOp'.args.found[i].name
                         \in Range(font_manager'.definitions.type_fonts[font_type])
             /\ font_manager'.atlas = font_manager.atlas
             /\ \A key \in DOMAIN font_manager'.font_impl_manager_map :
                   key[2] \in {"Monospace", "Proportional"}
                   => \E j \in 1..Len(font_manager'.font_impl_manager_map[key]) :
                         font_manager'.font_impl_manager_map[key][j].name
                            = lastOp'.args.found[i].name]_vars

\* C25: every entry of the GalleyCache has a last_used that is the
\* generation or the generation less one (mod 2^32).
C25_StampsAreRecent ==
    \A h \in DOMAIN galley_cache.cache :
       \/ galley_cache.cache[h].last_used = galley_cache.generation
       \/ /\ galley_cache.cache[h].last_used # U32Max
          /\ galley_cache.generation
                = U32(IF galley_cache.cache[h].last_used.lo = 65535
                      THEN galley_cache.cache[h].last_used.hi + 1
                      ELSE galley_cache.cache[h].last_used.hi,
                      (galley_cache.cache[h].last_used.lo + 1) % 65536)
       \/ /\ galley_cache.cache[h].last_used = U32Max
          /\ galley_cache.generation = U32Zero

\* the generation wrapped to 0 and an entry stamped u32::MAX is cached
C25_Witness ==
    /\ galley_cache.generation = U32Zero
    /\ \E h \in DOMAIN galley_cache.cache :
          galley_cache.cache[h].last_used = U32Max
    /\ lastOp.op = "begin_frame" /\ ~lastOp.panic /\ ~lastOp.recreate

\* C26 as stated: every begin_frame whose pixels_per_point is within 1e-3
\* of the stored one leaves the stored one as it was.
C26_Original ==
    [][/\ lastOp'.op = "begin_frame"
       /\ Abs(font_manager.pixels_per_point - lastOp'.args.pixels_per_point) * 1000
             <= PppUnit
       => font_manager'.pixels_per_point = font_manager.pixels_per_point]_vars

\* C26: a begin_frame whose pixels_per_point is within 1e-3 of the stored
\* one, with the stored max_texture_side and the atlas filled to at most
\* 0.8, leaves the stored pixels_per_point as it was, and one further than
\* 1e-3 from the stored one recreates the state with the argument stored,
\* whatever the begin_frame before was given; after a begin_frame that
\* returns the stored pixels_per_point is within 1e-3 of the argument and
\* the stored max_texture_side is the argument.
C26_ComparesWithStored ==
    [][lastOp'.op = "begin_frame"
       => /\ /\ Abs(font_manager.pixels_per_point - lastOp'.args.pixels_per_point)
                   * 1000 <= PppUnit
             /\ lastOp'.args.max_texture_side = font_manager.max_texture_side
             /\ font_manager.atlas.fill * 10 <= 8 * FillUnit
             => font_manager'.pixels_per_point = font_manager.pixels_per_point
          /\ /\ Abs(font_manager.pixels_per_point - lastOp'.args.pixels_per_point)
                   * 1000 > PppUnit
             /\ ~lastOp'.panic
             => /\ lastOp'.recreate
                /\ font_manager'.pixels_per_point = lastOp'.args.pixels_per_point
          /\ ~lastOp'.panic
             => /\ Abs(font_manager'.pixels_per_point - lastOp'.args.pixels_per_point)
                      * 1000 <= PppUnit
                /\ font_manager'.max_texture_side = lastOp'.args.max_texture_side]_vars

\* a begin_frame with 1.0 + 2/2048 returned with 1.0 stored and the atlas
\* kept; the stored value is the one of the construction
C26_Witness ==
    /\ lastOp.op = "begin_frame" /\ ~lastOp.panic /\ ~lastOp.recreate
    /\ lastOp.args.pixels_per_point = PppUnit + 2
    /\ begun = <<PppUnit + 2, 1024>>
    /\ font_manager.pixels_per_point = PppUnit
    /\ font_manager.pixels_per_point # lastOp.args.pixels_per_point
    /\ galley_cache.generation = U32(0, 2)

\* C27: a begin_frame for which a trigger fires and whose pixels_per_point
\* is not in (0, 100) panics and leaves the FontsManager (atlas,
\* FontsImplCache, font_impl_manager_map) and the GalleyCache (entries,
\* stamps, generation) as they were: flush_cache has not run.
C27_FailedRebuildKeepsState ==
    [][/\ lastOp'.op = "begin_frame"
       /\ \/ Abs(font_manager.pixels_per_point - lastOp'.args.pixels_per_point) * 1000
                > PppUnit
          \/ lastOp'.args.max_texture_side # font_manager.max_texture_side
          \/ font_manager.atlas.fill * 10 > 8 * FillUnit
       /\ ~(0 < lastOp'.args.pixels_per_point
            /\ lastOp'.args.pixels_per_point < 100 * PppUnit)
       => /\ lastOp'.panic
          /\ font_manager' = font_manager
          /\ galley_cache' = galley_cache]_vars

\* a begin_frame panicked and an entry that flush_cache would remove, and
\* the chains, are still there
C27_Witness ==
    /\ lastOp.op = "begin_frame" /\ lastOp.panic
    /\ \E h \in DOMAIN galley_cache.cache :
          galley_cache.cache[h].last_used # galley_cache.generation
    /\ font_manager.font_impl_manager_map # EmptyMap
    /\ font_manager.atlas.id = 1

====
